---------------------------- MODULE Spec2Model ----------------------------
(***************************************************************************)
(* Star-history aggregation engine of visualize-git: the GetStarAnalytics  *)
(* handler (sampling planner, batched page fetching with rate-limit check, *)
(* in-memory event cache, dense daily/hourly series and trends).           *)
(*                                                                         *)
(* Time is counted in ticks since the epoch, TicksPerHour ticks to the     *)
(* hour.  A calendar day "YYYY-MM-DD" is represented by its day number and *)
(* an hour key "YYYY-MM-DDTHH:00:00Z" by its hour number: the values that  *)
(* toISOString() / starred_at denote once cut to the day or to the hour.   *)
(***************************************************************************)
EXTENDS Integers, Sequences, FiniteSets, TLC

(***************************************************************************)
(* Bounds of the model                                                     *)
(***************************************************************************)
\* largest number of result pages the planner is exercised with
MaxPlanPages == 252
\* first calendar day (day number) used by the series inputs
FirstDay == 10
\* number of days after FirstDay a series input may span
MaxSpan == 4
\* largest reported total and largest number of events of a series input
MaxSeriesStars == 3
MaxSeriesEvents == 2
\* number of page requests of a run that may be answered other than by a filled page
MaxFaults == 1
\* longest daily history given to the trend calculation on its own
MaxHistory == 61
\* most events of one day given to the completeness correction on its own
MaxDaily == 8
\* granularity of the clock
TicksPerHour == 2

(***************************************************************************)
(* Program constants                                                       *)
(***************************************************************************)
starsPerPage == 100
BATCH_SIZE == 10
MaxQuickPages == 100
HeadPages == 30
TailBack == 69
HoursPerDay == 24
HourlyWindowDays == 7
TicksPerDay == HoursPerDay * TicksPerHour
CACHE_TTL == 7 * 24 * TicksPerHour
RateFloor == 10

Min(a, b) == IF a <= b THEN a ELSE b

\* Math.ceil(a / b) for integers a >= 0, b > 0
Ceil(a, b) == (a + b - 1) \div b

\* Math.floor(a / b)
Floor(a, b) == a \div b

\* Math.round(a / b) for a >= 0, b > 0: ties go up
Round(a, b) == (2 * a + b) \div (2 * b)

(***************************************************************************)
(* Numbers.  A JavaScript number is an IEEE 754 double: every quotient and *)
(* product is rounded to 53 significant bits, ties to the even neighbour,  *)
(* before Math.round or toFixed sees it.  A positive double is kept as its *)
(* integer part and the n bits of its fraction, the fraction as a sequence *)
(* of limbs, the most significant first, every limb but the first of       *)
(* LimbBits bits.  The operands here are integers below 2^13.              *)
(***************************************************************************)
SignificandBits == 53
LimbBits == 14

\* the number of bits of x
RECURSIVE BitLength(_)
BitLength(x) == IF x = 0 THEN 0 ELSE 1 + BitLength(x \div 2)

\* the widths of the limbs of a fraction of n bits
Widths(n) ==
  LET full == (n - 1) \div LimbBits
  IN  [i \in 1..(full + 1) |-> IF i = 1 THEN n - LimbBits * full ELSE LimbBits]

\* the limbs i.. of rem / b by long division, and the remainder left
RECURSIVE DivLimbs(_, _, _, _)
DivLimbs(rem, b, widths, i) ==
  IF i > Len(widths) THEN [frac |-> <<>>, rem |-> rem]
  ELSE LET v    == rem * 2^(widths[i])
           rest == DivLimbs(v % b, b, widths, i + 1)
       IN  [frac |-> <<v \div b>> \o rest.frac, rem |-> rest.rem]

\* the limbs 1..i of frac * m + c, c added at limb i, and the carry out of limb 1
RECURSIVE MulAdd(_, _, _, _, _)
MulAdd(frac, widths, i, m, c) ==
  IF i = 0 THEN [frac |-> <<>>, carry |-> c]
  ELSE LET v    == frac[i] * m + c
           rest == MulAdd(frac, widths, i - 1, m, v \div 2^(widths[i]))
       IN  [frac |-> Append(rest.frac, v % 2^(widths[i])), carry |-> rest.carry]

\* the place, counted from z, of the first 1 in the binary fraction of rem / b, 0 < rem < b
RECURSIVE Leading(_, _, _)
Leading(rem, b, z) == IF rem * 2^z >= b THEN z ELSE Leading(rem, b, z + 1)

\* the place of the first 1 in the limbs i.. of a fraction that has one
RECURSIVE FracLeading(_, _, _)
FracLeading(frac, widths, i) ==
  IF frac[i] > 0 THEN widths[i] - BitLength(frac[i]) + 1
  ELSE widths[i] + FracLeading(frac, widths, i + 1)

\* a / b for integers a >= 0, b > 0: the quotient rounded to a double
FloatDivide(a, b) ==
  LET int    == a \div b
      n      == IF int >= 1 THEN SignificandBits - BitLength(int)
                ELSE IF a = 0 THEN SignificandBits
                ELSE Leading(a % b, b, 1) + SignificandBits - 1
      widths == Widths(n)
      q      == DivLimbs(a % b, b, widths, 1)
      up     == \/ 2 * q.rem > b
                \/ 2 * q.rem = b /\ q.frac[Len(q.frac)] % 2 = 1
      r      == MulAdd(q.frac, widths, Len(widths), 1, IF up THEN 1 ELSE 0)
  IN  [int |-> int + r.carry, frac |-> r.frac, n |-> n]

\* x * m for a double x >= 0 and an integer m >= 0: the product rounded to
\* a double, which drops the d lowest bits of the fraction
FloatTimes(x, m) ==
  LET widths == Widths(x.n)
      p      == MulAdd(x.frac, widths, Len(widths), m, 0)
      int    == x.int * m + p.carry
      zero   == int = 0 /\ \A i \in 1..Len(p.frac) : p.frac[i] = 0
      keep   == IF int >= 1 THEN SignificandBits - BitLength(int)
                ELSE FracLeading(p.frac, widths, 1) + SignificandBits - 1
      d      == IF zero THEN 0 ELSE x.n - keep
      last   == p.frac[Len(p.frac)]
      low    == last % 2^d
      up     == \/ 2 * low > 2^d
                \/ d > 0 /\ 2 * low = 2^d /\ (last \div 2^d) % 2 = 1
      kept   == [p.frac EXCEPT ![Len(p.frac)] = last - low]
      r      == MulAdd(kept, widths, Len(widths), 1, IF up THEN 2^d ELSE 0)
  IN  [int |-> int + r.carry, frac |-> r.frac, n |-> x.n]

\* Math.round(x) for a double x >= 0: floor(x + 0.5) of its exact value
MathRound(x) == x.int + (IF x.frac[1] >= 2^(Widths(x.n)[1] - 1) THEN 1 ELSE 0)

\* parseFloat(x.toFixed(digits)) for a double x >= 0, in units of
\* 10^-digits: the integer nearest to the exact value of x * 10^digits, the
\* larger one of two
ToFixed(x, digits) ==
  LET widths == Widths(x.n)
      p      == MulAdd(x.frac, widths, Len(widths), 10^digits, 0)
  IN  x.int * 10^digits + p.carry + (IF p.frac[1] >= 2^(widths[1] - 1) THEN 1 ELSE 0)

(***************************************************************************)
(* Dates.  The process runs in a time zone; Date.setDate / getDate /       *)
(* setHours / getHours work on local time, toISOString on UTC.  A zone is  *)
(* [std, shift, from, to]: its offset is std hours, and std + shift hours  *)
(* for the instants t with from <= t < to (from, to in ticks).             *)
(***************************************************************************)
At(day, hour) == (day * HoursPerDay + hour) * TicksPerHour

TimeZones ==
  { [name |-> "UTC", std |-> 0,  shift |-> 0, from |-> 0, to |-> 0],
    [name |-> "DST", std |-> -5, shift |-> 1,
       from |-> At(FirstDay + 1, 7), to |-> At(FirstDay + 3, 6)] }

\* LocalTime(t): local time value of the instant t
LocalTime(z, t) ==
  IF z.from <= t /\ t < z.to
    THEN t + (z.std + z.shift) * TicksPerHour
    ELSE t + z.std * TicksPerHour

\* UTC(tl): a local time that is skipped or repeated by a transition is
\* read with the offset in force before the transition
UTCOf(z, tl) ==
  LET std == z.std * TicksPerHour
      dst == (z.std + z.shift) * TicksPerHour
  IN  IF z.from = z.to THEN tl - std
      ELSE IF tl < z.from + dst THEN tl - std
      ELSE IF tl < z.to + dst THEN tl - dst
      ELSE tl - std

\* d.setDate(d.getDate() + k)
SetDate(z, t, k) == UTCOf(z, LocalTime(z, t) + k * TicksPerDay)

\* h.setHours(h.getHours() + 1)
SetHours(z, t) == UTCOf(z, LocalTime(z, t) + TicksPerHour)

\* new Date("YYYY-MM-DD"): midnight UTC of the day
ParseDate(day) == day * TicksPerDay

\* toISOString().split('T')[0] and starred_at.split('T')[0]
ISODate(t) == t \div TicksPerDay

\* toISOString().slice(0, 13) + ':00:00Z' and starred_at.slice(0, 13) + ':00:00Z'
HourKey(t) == t \div TicksPerHour

(***************************************************************************)
(* SamplingPlanner: the pages the handler decides to fetch                 *)
(***************************************************************************)
TotalPages(totalStars) == Ceil(totalStars, starsPerPage)

\* for (let i = from; i <= to; i++) pagesToFetch.push(i)
Range(from, to) == [k \in 1..(IF to >= from THEN to - from + 1 ELSE 0) |-> from + k - 1]

\* a planner that caps the full scan as well
AllPagesCapped(totalPages, fetchFull) ==
  Range(1, Min(totalPages, Min(MaxQuickPages, totalPages)))

AllPages(totalPages, fetchFull) ==
  LET maxPages == IF fetchFull THEN totalPages ELSE Min(MaxQuickPages, totalPages)
  IN  Range(1, Min(totalPages, maxPages))

\* a planner whose tail starts one page early
SampledPagesLong(totalPages) ==
  Range(1, HeadPages)
    \o SelectSeq(Range(totalPages - TailBack - 1, totalPages), LAMBDA i : i > HeadPages)

\* a planner that takes the first 50 and the last 50 pages
SampledPagesHalves(totalPages) ==
  Range(1, 50) \o SelectSeq(Range(totalPages - 49, totalPages), LAMBDA i : i > 50)

SampledPages(totalPages) ==
  Range(1, HeadPages)
    \o SelectSeq(Range(totalPages - TailBack, totalPages), LAMBDA i : i > HeadPages)

PagesToFetch(totalStars, fetchFull) ==
  LET totalPages == TotalPages(totalStars)
  IN  IF fetchFull \/ totalPages <= MaxQuickPages
        THEN AllPages(totalPages, fetchFull)
        ELSE SampledPages(totalPages)

(***************************************************************************)
(* TimeSeriesBuilder.  A stargazer is a record [starred_at, user]; an      *)
(* entry the upstream sent without a timestamp has no starred_at field.    *)
(***************************************************************************)
EmptyMap == [k \in {} |-> 0]

\* map.get(k) || 0
MapGet(m, k) == IF k \in DOMAIN m THEN m[k] ELSE 0

\* map.set(k, (map.get(k) || 0) + 1)
MapInc(m, k) == [x \in DOMAIN m \cup {k} |-> IF x = k THEN MapGet(m, k) + 1 ELSE m[x]]

\* sevenDaysAgo = new Date(today); sevenDaysAgo.setDate(sevenDaysAgo.getDate() - 7)
SevenDaysAgo(z, today) == SetDate(z, today, 0 - HourlyWindowDays)

\* a bucketing that takes the events to come oldest first and drops one that
\* is older than the one before it
RECURSIVE StarsByDateAscending(_, _, _, _)
StarsByDateAscending(stargazers, lo, hi, m) ==
  IF lo > hi THEN m
  ELSE IF lo = hi
    THEN LET sg == stargazers[lo]
         IN  IF /\ "starred_at" \in DOMAIN sg
                /\ ~(/\ lo > 1
                      /\ "starred_at" \in DOMAIN stargazers[lo - 1]
                      /\ sg.starred_at < stargazers[lo - 1].starred_at)
               THEN MapInc(m, ISODate(sg.starred_at))
               ELSE m
    ELSE LET mid   == (lo + hi) \div 2
             first == StarsByDateAscending(stargazers, lo, mid, m)
         IN  IF first = m /\ mid < lo THEN m
             ELSE StarsByDateAscending(stargazers, mid + 1, hi, first)

\* allStargazers.forEach over stargazers[lo..hi], from the map m: starsByDate.
\* The list is walked by halves, which keeps the evaluation shallow for long
\* lists; comparing `first` with m has the first half evaluated before the
\* second is entered.
RECURSIVE StarsByDate(_, _, _, _)
StarsByDate(stargazers, lo, hi, m) ==
  IF lo > hi THEN m
  ELSE IF lo = hi
    THEN LET sg == stargazers[lo]
         IN  IF "starred_at" \in DOMAIN sg THEN MapInc(m, ISODate(sg.starred_at)) ELSE m
    ELSE LET mid   == (lo + hi) \div 2
             first == StarsByDate(stargazers, lo, mid, m)
         IN  IF first = m /\ mid < lo THEN m ELSE StarsByDate(stargazers, mid + 1, hi, first)

\* allStargazers.forEach over stargazers[lo..hi], from the map m: starsByHour
RECURSIVE StarsByHour(_, _, _, _, _)
StarsByHour(stargazers, lo, hi, sevenDaysAgo, m) ==
  IF lo > hi THEN m
  ELSE IF lo = hi
    THEN LET sg == stargazers[lo]
         IN  IF "starred_at" \in DOMAIN sg /\ sg.starred_at >= sevenDaysAgo
               THEN MapInc(m, HourKey(sg.starred_at))
               ELSE m
    ELSE LET mid   == (lo + hi) \div 2
             first == StarsByHour(stargazers, lo, mid, sevenDaysAgo, m)
         IN  IF first = m /\ mid < lo THEN m
             ELSE StarsByHour(stargazers, mid + 1, hi, sevenDaysAgo, first)

\* for (let d = new Date(createdDate); d <= today; d.setDate(d.getDate() + 1))
RECURSIVE DailyLoop(_, _, _, _, _, _)
DailyLoop(z, d, today, starsByDate, cumulative, dailyHistory) ==
  IF d <= today
    THEN LET dateStr    == ISODate(d)
             dailyStars == MapGet(starsByDate, dateStr)
         IN  DailyLoop(z, SetDate(z, d, 1), today, starsByDate, cumulative + dailyStars,
                       Append(dailyHistory, [date |-> dateStr, daily |-> dailyStars,
                                             cumulative |-> cumulative + dailyStars]))
    ELSE dailyHistory

\* the value of `cumulative` when the loop ends
Observed(dailyHistory) ==
  IF Len(dailyHistory) = 0 THEN 0 ELSE dailyHistory[Len(dailyHistory)].cumulative

\* a correction with the scale factor upside down
ScaleEntryInverse(d, totalStars, cumulative) ==
  [d EXCEPT !.cumulative = Round(d.cumulative * cumulative, totalStars)]

\* a correction that scales the daily counts as well
ScaleEntryDaily(d, totalStars, cumulative) ==
  [d EXCEPT !.cumulative = Round(d.cumulative * totalStars, cumulative),
            !.daily = Round(d.daily * totalStars, cumulative)]

\* a correction that cuts the scaled value off instead of rounding it
ScaleEntryFloor(d, totalStars, cumulative) ==
  [d EXCEPT !.cumulative = (d.cumulative * totalStars) \div cumulative]

\* d.cumulative = Math.round(d.cumulative * scaleFactor), scaleFactor = totalStars / cumulative
ScaleEntry(d, totalStars, cumulative) ==
  [d EXCEPT !.cumulative = MathRound(FloatTimes(FloatDivide(totalStars, cumulative), d.cumulative))]

\* if (cumulative < totalStars && cumulative > 0) dailyHistory.forEach(...)
ScaleHistory(dailyHistory, totalStars, cumulative) ==
  IF cumulative < totalStars /\ cumulative > 0
    THEN [i \in 1..Len(dailyHistory) |-> ScaleEntry(dailyHistory[i], totalStars, cumulative)]
    ELSE dailyHistory

\* a completeness cut off after one decimal instead of rounded to it
DataCompletenessCut(cumulative, totalStars) ==
  IF totalStars > 0 THEN (cumulative * 1000) \div totalStars ELSE 1000

\* totalStars > 0 ? (cumulative / totalStars) * 100 : 100, then toFixed(1):
\* the value in tenths of a percent
DataCompleteness(cumulative, totalStars) ==
  IF totalStars > 0 THEN ToFixed(FloatTimes(FloatDivide(cumulative, totalStars), 100), 1) ELSE 1000

\* the first n values h takes in
\* for (let h = new Date(sevenDaysAgo); ...; h.setHours(h.getHours() + 1)),
\* computed by halves to keep the evaluation shallow; in a zone without
\* transitions LocalTime and UTCOf cancel and every step adds one hour
RECURSIVE HourSteps(_, _, _)
HourSteps(z, h, n) ==
  IF n <= 0 THEN <<>>
  ELSE IF z.from = z.to THEN [k \in 1..n |-> h + (k - 1) * TicksPerHour]
  ELSE IF n = 1 THEN <<h>>
  ELSE LET first == HourSteps(z, h, n \div 2)
       IN  first \o HourSteps(z, SetHours(z, first[Len(first)]), n - n \div 2)

\* for (let h = new Date(sevenDaysAgo); h <= today; h.setHours(h.getHours() + 1)):
\* setHours moves h forward by an hour at least, so the loop body runs for a
\* prefix of the first HourKey(today) - HourKey(sevenDaysAgo) + 1 values of h
HourlyLoop(z, sevenDaysAgo, today, starsByHour) ==
  LET most == HourKey(today) - HourKey(sevenDaysAgo) + 1
      hs   == SelectSeq(HourSteps(z, sevenDaysAgo, most), LAMBDA h : h <= today)
  IN  [k \in 1..Len(hs) |-> [hour  |-> HourKey(hs[k]),
                             stars |-> MapGet(starsByHour, HourKey(hs[k]))]]

\* Math.floor((today - createdDate) / (1000 * 60 * 60 * 24))
AgeInDays(createdAt, today) == Floor(today - ParseDate(createdAt), TicksPerDay)

\* dailyHistory.slice(-n)
SliceLast(dailyHistory, n) ==
  SubSeq(dailyHistory, Len(dailyHistory) - Min(n, Len(dailyHistory)) + 1, Len(dailyHistory))

\* dailyHistory.slice(-60, -30)
SlicePrev30(dailyHistory) ==
  LET len == Len(dailyHistory)
      max0(x) == IF x < 0 THEN 0 ELSE x
  IN  SubSeq(dailyHistory, max0(len - 60) + 1, max0(len - 30))

\* entries.reduce((a, b) => a + b.daily, 0)
RECURSIVE SumOfDaily(_, _)
SumOfDaily(entries, n) ==
  IF n = 0 THEN 0 ELSE SumOfDaily(entries, n - 1) + entries[n].daily

\* parseFloat((sum / length).toFixed(2)), in hundredths; 0 for an empty slice
Average(sum, length) == IF length > 0 THEN ToFixed(FloatDivide(sum, length), 2) ELSE 0

\* a reduction that lets a later day of equal count replace the maximum
RECURSIVE PeakDayLatest(_, _, _, _)
PeakDayLatest(dailyHistory, lo, hi, max) ==
  IF hi < lo THEN max
  ELSE IF lo = hi
    THEN LET day == dailyHistory[lo] IN IF day.daily >= max.daily THEN day ELSE max
  ELSE LET mid   == (lo + hi) \div 2
           first == PeakDayLatest(dailyHistory, lo, mid, max)
       IN  IF first = max /\ mid < lo THEN max
           ELSE PeakDayLatest(dailyHistory, mid + 1, hi, first)

\* dailyHistory.reduce((max, day) => day.daily > max.daily ? day : max, init)
\* over the entries lo..hi in their order, starting from max.  The history
\* is walked by halves, which keeps the evaluation shallow for long
\* histories; comparing `first` with max has the first half evaluated before
\* the second is entered.
RECURSIVE PeakDay(_, _, _, _)
PeakDay(dailyHistory, lo, hi, max) ==
  IF hi < lo THEN max
  ELSE IF lo = hi
    THEN LET day == dailyHistory[lo] IN IF day.daily > max.daily THEN day ELSE max
  ELSE LET mid   == (lo + hi) \div 2
           first == PeakDay(dailyHistory, lo, mid, max)
       IN  IF first = max /\ mid < lo THEN max ELSE PeakDay(dailyHistory, mid + 1, hi, first)

\* a detection that counts a change of exactly 10% as a trend
TrendInclusive(sum30, sumPrev30) ==
  IF sumPrev30 > 0
    THEN IF 10 * (sum30 - sumPrev30) >= sumPrev30 THEN "up"
         ELSE IF 10 * (sum30 - sumPrev30) <= 0 - sumPrev30 THEN "down"
         ELSE "stable"
  ELSE IF sum30 >= 10 THEN "up"
  ELSE "stable"

\* Trend detection: change = (sum30 - sumPrev30) / sumPrev30 against 0.1 and
\* -0.1.  The quotient of two integers is correctly rounded, so it compares
\* with the literal 0.1 as the exact ratio compares with 1/10.
Trend(sum30, sumPrev30) ==
  IF sumPrev30 > 0
    THEN IF 10 * (sum30 - sumPrev30) > sumPrev30 THEN "up"
         ELSE IF 10 * (sum30 - sumPrev30) < 0 - sumPrev30 THEN "down"
         ELSE "stable"
  ELSE IF sum30 > 10 THEN "up"
  ELSE "stable"

\* parseFloat(growthRate.toFixed(2)), in hundredths of a percent; a negative
\* rate is the rate of the opposite change, negated
GrowthRate(last30, totalStars) ==
  LET startStars == IF Len(last30) > 0 THEN last30[1].cumulative ELSE totalStars
      rate(diff) == ToFixed(FloatTimes(FloatDivide(diff, startStars), 100), 2)
  IN  IF startStars > 0
        THEN IF totalStars >= startStars THEN rate(totalStars - startStars)
             ELSE 0 - rate(startStars - totalStars)
        ELSE 0

\* "Calculate trends from daily history": the trends object and recentActivity
Trends(dailyHistory, totalStars, createdAt) ==
  LET last7     == SliceLast(dailyHistory, 7)
      last30    == SliceLast(dailyHistory, 30)
      prev30    == SlicePrev30(dailyHistory)
      sum7      == SumOfDaily(last7, Len(last7))
      sum30     == SumOfDaily(last30, Len(last30))
      sumPrev30 == SumOfDaily(prev30, Len(prev30))
      peakDay   == PeakDay(dailyHistory, 1, Len(dailyHistory),
                           [date |-> createdAt, daily |-> 0, cumulative |-> 0])
  IN  [ avg7d      |-> Average(sum7, Len(last7)),
        avg30d     |-> Average(sum30, Len(last30)),
        peakDay    |-> [date |-> peakDay.date, stars |-> peakDay.daily],
        velocity   |-> Average(sum7, Len(last7)),
        trend      |-> Trend(sum30, sumPrev30),
        growthRate |-> GrowthRate(last30, totalStars) ]

\* parseFloat(avgStarsPerDay.toFixed(2)), in hundredths
AvgStarsPerDay(totalStars, ageInDays) ==
  IF ageInDays > 0 THEN ToFixed(FloatDivide(totalStars, ageInDays), 2) ELSE totalStars * 100

\* the part of the handler from "Group by date" to the response body
BuildSeries(z, createdAt, today, totalStars, allStargazers) ==
  LET n            == Len(allStargazers)
      sevenDaysAgo == SevenDaysAgo(z, today)
      starsByDate  == StarsByDate(allStargazers, 1, n, EmptyMap)
      starsByHour  == StarsByHour(allStargazers, 1, n, sevenDaysAgo, EmptyMap)
      unscaled     == DailyLoop(z, ParseDate(createdAt), today, starsByDate, 0, <<>>)
      cumulative   == Observed(unscaled)
      dailyHistory == ScaleHistory(unscaled, totalStars, cumulative)
  IN  [ totalStars       |-> totalStars,
        createdAt        |-> createdAt,
        ageInDays        |-> AgeInDays(createdAt, today),
        avgStarsPerDay   |-> AvgStarsPerDay(totalStars, AgeInDays(createdAt, today)),
        observed         |-> cumulative,
        dailyHistory     |-> dailyHistory,
        hourlyActivity   |-> HourlyLoop(z, sevenDaysAgo, today, starsByHour),
        trends           |-> Trends(dailyHistory, totalStars, createdAt),
        recentActivity   |-> SliceLast(dailyHistory, 30),
        dataCompleteness |-> DataCompleteness(cumulative, totalStars) ]

(***************************************************************************)
(* The handler.  JavaScript runs it without interruption between two       *)
(* awaits, so there is one action per await: the repository (summary)      *)
(* response, each stargazer page response of the batch in flight, and the  *)
(* rate_limit response.  A response body is read (response.json()) in the  *)
(* same step as the response arrives.                                      *)
(***************************************************************************)
VARIABLES
  zone,        \* time zone of the process
  workload,    \* what the environment asks for and what the upstream may answer
  now,         \* the clock: Date.now() and new Date()
  faults,      \* number of page responses so far that were answers other than a filled page
  starCache,   \* the Map starCache: cacheKey -> [timestamp, data]
  req,         \* the invocations of the handler
  log,         \* history of the upstream calls of each invocation
  plan,        \* input and output of the planner on its own
  series       \* input and output of the series builder on its own

vars == <<zone, workload, now, faults, starCache, req, log, plan, series>>

Reqs == {1, 2}
Keys == {"o/a", "o/b"}

IdleReq ==
  [ pc |-> "idle", key |-> "o/a", fetchFull |-> FALSE, totalStars |-> 0, createdAt |-> 0,
    today |-> 0, allStargazers |-> <<>>, pagesToFetch |-> <<>>, i |-> 0,
    pending |-> {}, results |-> EmptyMap, response |-> [status |-> 0] ]

\* what an invocation asked of the upstream and what the upstream answered:
\* repo, quota: number of repository and rate_limit requests; repoStatus: the
\* status of the repository response (0 none yet, -1 no response); pages: the
\* page requests in order; class, delivered: classification and stargazers of
\* each page response; quotaSeen: the rate_limit answers with the loop index
\* they followed; thrown: a page or rate_limit request did not complete;
\* lookup: what starCache held for the key when the invocation looked it up
\* (found, the age of the entry and its data); finished: the rank of the
\* invocation among those that returned (0 while it runs); arrived: the pages
\* in the order their responses came in
NoLookup == [found |-> FALSE, age |-> 0, data |-> <<>>]

IdleLog ==
  [ repo |-> 0, repoStatus |-> 0, pages |-> <<>>, quota |-> 0, quotaSeen |-> <<>>,
    class |-> EmptyMap, delivered |-> EmptyMap, thrown |-> FALSE, lookup |-> NoLookup,
    finished |-> 0, arrived |-> <<>> ]

\* the rank of the invocation that returns next
NextRank(l) == 1 + Cardinality({r \in DOMAIN l : l[r].finished > 0})

\* the rank of an invocation after a step that took it to q
RankAfter(l, r, q) == IF q.pc \in {"store", "hit", "done"} THEN NextRank(l) ELSE l[r].finished


\* response.ok
ResponseOk(status) == 200 <= status /\ status <= 299

\* message.includes('rate limit')
IncludesRateLimit(message) == message = "Failed to fetch repo: rate limit exceeded"

\* a catch block that answers 200
ErrorResultOk(message) == [status |-> 200, error |-> message]

\* the catch block
ErrorResult(message) ==
  IF IncludesRateLimit(message)
    THEN [status |-> 403, error |-> "GitHub API rate limit exceeded. Please provide a token."]
    ELSE [status |-> 500, error |-> message]

\* a lookup that still serves an entry aged exactly CACHE_TTL
CacheHitInclusive(cache, key, t) ==
  key \in DOMAIN cache /\ t - cache[key].timestamp <= CACHE_TTL

\* cached && (Date.now() - cached.timestamp < CACHE_TTL)
CacheHit(cache, key, t) == key \in DOMAIN cache /\ t - cache[key].timestamp < CACHE_TTL

\* a store that keeps the entry a concurrent request has put there
CacheSetIfAbsent(cache, key, t, data) ==
  IF key \in DOMAIN cache
    THEN cache
    ELSE [k \in DOMAIN cache \cup {key} |->
            IF k = key THEN [timestamp |-> t, data |-> data] ELSE cache[k]]

\* starCache.set(cacheKey, { timestamp: Date.now(), data: allStargazers })
CacheSet(cache, key, t, data) ==
  [k \in DOMAIN cache \cup {key} |->
     IF k = key THEN [timestamp |-> t, data |-> data] ELSE cache[k]]

\* a store that also takes a fetch without events
CacheStoreAlways(cache, q, t) == CacheSet(cache, q.key, t, q.allStargazers)

\* if (allStargazers.length > 0) starCache.set(...)
CacheStore(cache, q, t) ==
  IF Len(q.allStargazers) > 0 THEN CacheSet(cache, q.key, t, q.allStargazers) ELSE cache

\* a slice that is one page too long
BatchWide(pagesToFetch, i) ==
  SubSeq(pagesToFetch, i + 1, Min(i + BATCH_SIZE + 1, Len(pagesToFetch)))

\* pagesToFetch.slice(i, i + BATCH_SIZE)
Batch(pagesToFetch, i) == SubSeq(pagesToFetch, i + 1, Min(i + BATCH_SIZE, Len(pagesToFetch)))

\* a loop whose batches overlap by a page
NextIndexOverlap(i) == i + BATCH_SIZE - 1

\* i += BATCH_SIZE
NextIndex(i) == i + BATCH_SIZE

SeqToSet(sq) == {sq[k] : k \in 1..Len(sq)}

\* the head of the for loop: the next batch is issued, or the loop is left
LoopHead(q) ==
  IF q.i < Len(q.pagesToFetch)
    THEN [q EXCEPT !.pc = "pages", !.pending = SeqToSet(Batch(q.pagesToFetch, q.i)),
                   !.results = EmptyMap]
    ELSE [q EXCEPT !.pc = "store", !.pending = {}, !.results = EmptyMap]

\* results.forEach(stars => allStargazers.push(...stars)), in the order of the batch
RECURSIVE PushAll(_, _, _)
PushAll(acc, batch, results) ==
  IF Len(batch) = 0 THEN acc
  ELSE PushAll(acc \o results[Head(batch)], Tail(batch), results)

\* results.some(r => Array.isArray(r) && r.length === 0)
SomeEmpty(batch, results) == \E k \in 1..Len(batch) : Len(results[batch[k]]) = 0

\* a floor that is one too low
QuotaLowOffByOne(rate) == "remaining" \in DOMAIN rate /\ rate.remaining < RateFloor - 1

\* rateData.resources?.core?.remaining < 10; a missing field compares false
QuotaLow(rate) == "remaining" \in DOMAIN rate /\ rate.remaining < RateFloor

\* from "Processing stargazers" to return { status: 200, body }
Respond(q, z) ==
  [q EXCEPT !.pc = "done",
            !.response = [status |-> 200,
                          body |-> BuildSeries(z, q.createdAt, q.today, q.totalStars,
                                               q.allStargazers)]]

\* catch (error): the invocation ends with the error response
Throw(q, message) ==
  [q EXCEPT !.pc = "done", !.pending = {}, !.results = EmptyMap,
            !.response = ErrorResult(message)]

\* the handler from a point after the loop head up to its next await or its return
Continue(q, z) == IF q.pc = "store" THEN Respond(q, z) ELSE q

\* a handler that stores what it has gathered after every batch
CacheAfterEachBatch(cache, q, t) ==
  IF q.pc \in {"store", "pages", "rate"} THEN CacheStore(cache, q, t) ELSE cache

\* a handler that stores the events again when it served them from the store
CacheAfterHitToo(cache, q, t) ==
  IF q.pc \in {"store", "hit"} THEN CacheStore(cache, q, t) ELSE cache

\* the cache after the step that took the handler to q
CacheAfter(cache, q, t) == IF q.pc = "store" THEN CacheStore(cache, q, t) ELSE cache

\* pages requested by the step that took the handler to q
Issued(q) == IF q.pc = "pages" THEN Batch(q.pagesToFetch, q.i) ELSE <<>>

(***************************************************************************)
(* The environment: callers, the clock and the upstream (GitHub)           *)
(***************************************************************************)
\* the instants the clock shows
StartTime == At(FirstDay + 2, 12)
ClockValues == {StartTime, StartTime + CACHE_TTL - 1, StartTime + CACHE_TTL}

\* the answers to a page request other than a filled page: no answer, rate
\* limited, a server error, an empty page
FaultyPages ==
  { [kind |-> "reject"],
    [kind |-> "http", status |-> 403],
    [kind |-> "http", status |-> 500],
    [kind |-> "http", status |-> 200, body |-> <<>>] }

\* "pair": two concurrent invocations on small repositories (no page or one
\*         page each), at one instant;
\* "again": two invocations on small repositories, the second after the first
\*         has returned, while time passes;
\* "trio": one invocation on a repository of three pages, whose responses
\*         arrive in any order, in a process with or without daylight saving;
\* "solo": one invocation on a repository of eleven pages (two batches),
\*         whose responses arrive in the order of the requests;
\* "full": the same with pages of a hundred stargazers, in a process with
\*         daylight saving, where a page is filled, rate limited or not
\*         answered.
\* By the symmetry of the keys the first invocation is for "o/a".
Workloads ==
  { [ name  |-> "pair", reqs |-> {1, 2},
      keys  |-> [r \in Reqs |-> IF r = 1 THEN {"o/a"} ELSE Keys],
      fulls |-> [r \in Reqs |-> IF r = 1 THEN {FALSE} ELSE BOOLEAN],
      stars |-> {0, 3}, sizes |-> {1, 2}, inOrder |-> FALSE, serial |-> FALSE,
      faulty |-> FaultyPages,
      zones |-> {z \in TimeZones : z.name = "UTC"}, clock |-> {StartTime} ],
    [ name  |-> "again", reqs |-> {1, 2},
      keys  |-> [r \in Reqs |-> IF r = 1 THEN {"o/a"} ELSE Keys],
      fulls |-> [r \in Reqs |-> IF r = 1 THEN {FALSE} ELSE BOOLEAN],
      stars |-> {0, 3}, sizes |-> {1}, inOrder |-> FALSE, serial |-> TRUE,
      faulty |-> FaultyPages,
      zones |-> {z \in TimeZones : z.name = "UTC"}, clock |-> ClockValues ],
    [ name  |-> "trio", reqs |-> {1},
      keys  |-> [r \in Reqs |-> {"o/a"}],
      fulls |-> [r \in Reqs |-> BOOLEAN],
      stars |-> {2 * starsPerPage + 1}, sizes |-> {1}, inOrder |-> FALSE, serial |-> FALSE,
      faulty |-> FaultyPages,
      zones |-> TimeZones, clock |-> {StartTime} ],
    [ name  |-> "solo", reqs |-> {1},
      keys  |-> [r \in Reqs |-> {"o/a"}],
      fulls |-> [r \in Reqs |-> {FALSE}],
      stars |-> {BATCH_SIZE * starsPerPage + 1}, sizes |-> {1}, inOrder |-> TRUE,
      serial |-> FALSE, faulty |-> FaultyPages,
      zones |-> {z \in TimeZones : z.name = "UTC"}, clock |-> {StartTime} ],
    [ name  |-> "full", reqs |-> {1},
      keys  |-> [r \in Reqs |-> {"o/a"}],
      fulls |-> [r \in Reqs |-> {FALSE}],
      stars |-> {BATCH_SIZE * starsPerPage + 1}, sizes |-> {starsPerPage}, inOrder |-> TRUE,
      serial |-> FALSE, faulty |-> {f \in FaultyPages : f.kind = "http" /\ f.status = 403},
      zones |-> {z \in TimeZones : z.name = "DST"}, clock |-> {StartTime} ] }

\* the k-th stargazer of page p: the first starred on FirstDay, the others
\* on the day after
Stargazer(p, k) ==
  [starred_at |-> At(FirstDay + Min(k, 2) - 1, 9) + p, user |-> <<p, k>>]

\* a filled page p with n stargazers
PageBody(p, n) == [k \in 1..n |-> Stargazer(p, k)]

RepoResponses(w) ==
  { [kind |-> "reject"],
    [kind |-> "http", status |-> 404, statusText |-> "Not Found"],
    [kind |-> "http", status |-> 403, statusText |-> "rate limit exceeded"] }
  \cup { [kind |-> "http", status |-> 200, stargazers_count |-> n, created_at |-> FirstDay]
           : n \in w.stars }

FilledPages(p, w) == { [kind |-> "http", status |-> 200, body |-> PageBody(p, n)] : n \in w.sizes }

RateResponses ==
  { [kind |-> "reject"],
    [kind |-> "http"],
    [kind |-> "http", remaining |-> RateFloor - 1],
    [kind |-> "http", remaining |-> RateFloor] }

\* error.message of the failure of the repository request
RepoMessage(resp) ==
  IF resp.kind = "reject" THEN "fetch failed"
  ELSE IF resp.status = 403 THEN "Failed to fetch repo: rate limit exceeded"
  ELSE "Failed to fetch repo: Not Found"

\* the three outcomes the specification distinguishes for a page, and a
\* request that did not complete
Classify(resp) ==
  IF resp.kind = "reject" THEN "reject"
  ELSE IF resp.status = 403 THEN "limited"
  ELSE IF ~ResponseOk(resp.status) THEN "error"
  ELSE "ok"

(***************************************************************************)
(* Actions                                                                 *)
(***************************************************************************)
PureIdle ==
  /\ plan = [totalStars |-> 0, fetchFull |-> FALSE, done |-> FALSE, pages |-> <<>>]
  /\ series = [done |-> FALSE]

Init ==
  /\ workload \in Workloads
  /\ zone \in workload.zones
  /\ now = StartTime
  /\ faults = 0
  /\ starCache = EmptyMap
  /\ req = [r \in Reqs |-> IdleReq]
  /\ log = [r \in Reqs |-> IdleLog]
  /\ PureIdle

\* the runtime invokes the handler: it runs up to `await fetch(.../repos/owner/repo)`
Start(r, key, full) ==
  /\ r \in workload.reqs
  /\ key \in workload.keys[r]
  /\ full \in workload.fulls[r]
  /\ req[r].pc = "idle"
  /\ workload.serial => \A o \in Reqs : o < r => req[o].pc = "done"
  /\ req' = [req EXCEPT ![r] = [IdleReq EXCEPT !.pc = "repo", !.key = key, !.fetchFull = full]]
  /\ log' = [log EXCEPT ![r].repo = @ + 1]
  /\ UNCHANGED <<zone, workload, now, faults, starCache, plan, series>>

\* a runtime that resumes an invocation only when no earlier one is running
ResumesInTurn(r, at) ==
  req[r].pc = at /\ \A o \in Reqs : o < r => req[o].pc \in {"idle", "done"}

\* the invocation r, suspended at the await `at`, is resumed when the promise
\* it awaits settles, whatever the other invocations do
Resumes(r, at) == req[r].pc = at

\* a handler whose full scan passes the store by
AfterRepoFullBypasses(q, resp, cache, t) ==
  LET q0 == [q EXCEPT !.totalStars = resp.stargazers_count,
                      !.createdAt = resp.created_at,
                      !.today = t]
  IN  IF CacheHit(cache, q.key, t) /\ ~q.fetchFull
        THEN [q0 EXCEPT !.allStargazers = cache[q.key].data, !.pc = "hit"]
        ELSE LoopHead([q0 EXCEPT !.pagesToFetch = PagesToFetch(q0.totalStars, q0.fetchFull),
                                 !.i = 0])

\* the handler from the repository data to its first page batch or its return
AfterRepo(q, resp, cache, t) ==
  LET q0 == [q EXCEPT !.totalStars = resp.stargazers_count,
                      !.createdAt = resp.created_at,
                      !.today = t]
  IN  IF CacheHit(cache, q.key, t)
        THEN [q0 EXCEPT !.allStargazers = cache[q.key].data, !.pc = "hit"]
        ELSE LoopHead([q0 EXCEPT !.pagesToFetch = PagesToFetch(q0.totalStars, q0.fetchFull),
                                 !.i = 0])

\* a handler that looks the store up first and serves a fresh entry when
\* the repository request fails
RepoResponseCacheFirst(r, resp) ==
  LET q == req[r] IN
  /\ Resumes(r, "repo")
  /\ resp \in RepoResponses(workload)
  /\ IF resp.kind = "reject" \/ ~ResponseOk(resp.status)
       THEN /\ req' = [req EXCEPT ![r] =
                         IF CacheHit(starCache, q.key, now)
                           THEN Respond([q EXCEPT !.createdAt = FirstDay, !.today = now,
                                                  !.allStargazers = starCache[q.key].data],
                                        zone)
                           ELSE Throw(q, RepoMessage(resp))]
            /\ log' = [log EXCEPT ![r].repoStatus = IF resp.kind = "reject" THEN -1
                                                    ELSE resp.status,
                                  ![r].finished = NextRank(log)]
            /\ UNCHANGED starCache
       ELSE LET q1 == AfterRepo(q, resp, starCache, now) IN
            /\ req' = [req EXCEPT ![r] = IF q1.pc = "hit" THEN Respond(q1, zone)
                                                          ELSE Continue(q1, zone)]
            /\ starCache' = CacheAfter(starCache, q1, now)
            /\ log' = [log EXCEPT ![r].repoStatus = resp.status,
                                  ![r].pages = @ \o Issued(q1),
                                  ![r].finished = RankAfter(log, r, q1),
                                  ![r].lookup =
                                     IF q.key \in DOMAIN starCache
                                       THEN [found |-> TRUE,
                                             age   |-> now - starCache[q.key].timestamp,
                                             data  |-> starCache[q.key].data]
                                       ELSE NoLookup]
  /\ UNCHANGED <<zone, workload, now, faults, plan, series>>

\* the repository response arrives
RepoResponse(r, resp) ==
  LET q == req[r] IN
  /\ Resumes(r, "repo")
  /\ resp \in RepoResponses(workload)
  /\ IF resp.kind = "reject" \/ ~ResponseOk(resp.status)
       THEN /\ req' = [req EXCEPT ![r] = Throw(q, RepoMessage(resp))]
            /\ log' = [log EXCEPT ![r].repoStatus = IF resp.kind = "reject" THEN -1
                                                    ELSE resp.status,
                                  ![r].finished = NextRank(log)]
            /\ UNCHANGED starCache
       ELSE LET q1 == AfterRepo(q, resp, starCache, now) IN
            /\ req' = [req EXCEPT ![r] = IF q1.pc = "hit" THEN Respond(q1, zone)
                                                          ELSE Continue(q1, zone)]
            /\ starCache' = CacheAfter(starCache, q1, now)
            /\ log' = [log EXCEPT ![r].repoStatus = resp.status,
                                  ![r].pages = @ \o Issued(q1),
                                  ![r].finished = RankAfter(log, r, q1),
                                  ![r].lookup =
                                     IF q.key \in DOMAIN starCache
                                       THEN [found |-> TRUE,
                                             age   |-> now - starCache[q.key].timestamp,
                                             data  |-> starCache[q.key].data]
                                       ELSE NoLookup]
  /\ UNCHANGED <<zone, workload, now, faults, plan, series>>

\* a page answer that fabricates an event for a rate-limited page
PageResultFabricated(resp) ==
  IF resp.status = 403 THEN <<[starred_at |-> At(FirstDay, 9), user |-> <<0, 0>>]>>
  ELSE IF ~ResponseOk(resp.status) THEN <<>>
  ELSE resp.body

\* what the async closure of batch.map returns for a response
PageResult(resp) ==
  IF resp.status = 403 THEN <<>>
  ELSE IF ~ResponseOk(resp.status) THEN <<>>
  ELSE resp.body

\* the handler after Promise.all resolved, up to its next await or the loop exit
AfterBatch(q) ==
  LET batch == Batch(q.pagesToFetch, q.i)
      q1    == [q EXCEPT !.allStargazers = PushAll(@, batch, q.results)]
  IN  IF SomeEmpty(batch, q.results)
        THEN [q1 EXCEPT !.pc = "rate", !.results = EmptyMap]
        ELSE LoopHead([q1 EXCEPT !.i = NextIndex(@)])

\* the response of one page of the batch in flight arrives
PageResponse(r, p, resp) ==
  LET q == req[r] IN
  /\ Resumes(r, "pages")
  /\ p \in q.pending
  /\ workload.inOrder => \A x \in q.pending : p <= x
  /\ \/ resp \in FilledPages(p, workload) /\ UNCHANGED faults
     \/ resp.kind = "reject" /\ UNCHANGED faults
     \/ /\ resp \in workload.faulty /\ resp.kind = "http"
        /\ faults < MaxFaults /\ faults' = faults + 1
  /\ LET noted == [x \in DOMAIN log[r].class \cup {p} |->
                      IF x = p THEN Classify(resp) ELSE log[r].class[x]]
         given == [x \in DOMAIN log[r].delivered \cup {p} |->
                      IF x # p THEN log[r].delivered[x]
                      ELSE IF Classify(resp) = "ok" THEN resp.body ELSE <<>>] IN
     IF resp.kind = "reject"
       THEN /\ req' = [req EXCEPT ![r] = Throw(q, "fetch failed")]
            /\ log' = [log EXCEPT ![r].class = noted, ![r].delivered = given,
                                  ![r].arrived = Append(@, p),
                                  ![r].thrown = TRUE, ![r].finished = NextRank(log)]
            /\ UNCHANGED starCache
       ELSE LET q0 == [q EXCEPT !.pending = @ \ {p},
                                !.results = [x \in DOMAIN @ \cup {p} |->
                                               IF x = p THEN PageResult(resp) ELSE @[x]]]
                q1 == IF q0.pending = {} THEN AfterBatch(q0) ELSE q0
            IN  /\ req' = [req EXCEPT ![r] = Continue(q1, zone)]
                /\ starCache' = CacheAfter(starCache, q1, now)
                /\ log' = [log EXCEPT ![r].class = noted, ![r].delivered = given,
                                      ![r].arrived = Append(@, p),
                                      ![r].finished = RankAfter(log, r, q1),
                                      ![r].quota = IF q1.pc = "rate" THEN @ + 1 ELSE @,
                                      ![r].pages = IF q0.pending = {} THEN @ \o Issued(q1) ELSE @]
  /\ UNCHANGED <<zone, workload, now, plan, series>>

\* a handler that requests the batch again when the quota allows it
AfterRateRetry(q, rate) ==
  IF QuotaLow(rate)
    THEN [q EXCEPT !.pc = "store"]
    ELSE LoopHead(q)

\* a handler that, when the quota is low, waits for it to come back instead
\* of leaving the loop
AfterRateWaits(q, rate) ==
  IF QuotaLow(rate)
    THEN [q EXCEPT !.pc = "wait"]
    ELSE LoopHead([q EXCEPT !.i = NextIndex(@)])

\* the handler after the rate_limit data, up to its next await or the loop exit
AfterRate(q, rate) ==
  IF QuotaLow(rate)
    THEN [q EXCEPT !.pc = "store"]
    ELSE LoopHead([q EXCEPT !.i = NextIndex(@)])

\* a handler that stores what it has gathered when the rate_limit request fails
RateResponseSavesFirst(r, resp) ==
  LET q == req[r] IN
  /\ Resumes(r, "rate")
  /\ resp \in RateResponses
  /\ IF resp.kind = "reject"
       THEN /\ req' = [req EXCEPT ![r] = Throw(q, "fetch failed")]
            /\ log' = [log EXCEPT ![r].thrown = TRUE, ![r].finished = NextRank(log)]
            /\ starCache' = CacheStore(starCache, q, now)
       ELSE LET q1 == AfterRate(q, resp) IN
            /\ req' = [req EXCEPT ![r] = Continue(q1, zone)]
            /\ starCache' = CacheAfter(starCache, q1, now)
            /\ log' = [log EXCEPT ![r].quotaSeen = Append(@, [index |-> q.i, rate |-> resp]),
                                  ![r].finished = RankAfter(log, r, q1),
                                  ![r].pages = @ \o Issued(q1)]
  /\ UNCHANGED <<zone, workload, now, faults, plan, series>>

\* the rate_limit response arrives
RateResponse(r, resp) ==
  LET q == req[r] IN
  /\ Resumes(r, "rate")
  /\ resp \in RateResponses
  /\ IF resp.kind = "reject"
       THEN /\ req' = [req EXCEPT ![r] = Throw(q, "fetch failed")]
            /\ log' = [log EXCEPT ![r].thrown = TRUE, ![r].finished = NextRank(log)]
            /\ UNCHANGED starCache
       ELSE LET q1 == AfterRate(q, resp) IN
            /\ req' = [req EXCEPT ![r] = Continue(q1, zone)]
            /\ starCache' = CacheAfter(starCache, q1, now)
            /\ log' = [log EXCEPT ![r].quotaSeen = Append(@, [index |-> q.i, rate |-> resp]),
                                  ![r].finished = RankAfter(log, r, q1),
                                  ![r].pages = @ \o Issued(q1)]
  /\ UNCHANGED <<zone, workload, now, faults, plan, series>>

\* time passes
Tick ==
  /\ \E t \in workload.clock : t > now /\ now' = t
  /\ UNCHANGED <<zone, workload, faults, starCache, req, log, plan, series>>

\* every answer the upstream may give in some workload
AnyRepoResponse == UNION {RepoResponses(w) : w \in Workloads}
PageNumbers == 1..(BATCH_SIZE + 1)
AnyPageResponse ==
  FaultyPages \cup UNION {FilledPages(p, w) : p \in PageNumbers, w \in Workloads}

Next ==
  \/ \E r \in Reqs, key \in Keys, full \in BOOLEAN : Start(r, key, full)
  \/ \E r \in Reqs, resp \in AnyRepoResponse : RepoResponse(r, resp)
  \/ \E r \in Reqs, p \in PageNumbers, resp \in AnyPageResponse : PageResponse(r, p, resp)
  \/ \E r \in Reqs, resp \in RateResponses : RateResponse(r, resp)
  \/ Tick

Spec == Init /\ [][Next]_vars

(***************************************************************************)
(* Two concurrent invocations where the upstream answers every request of  *)
(* the second and may leave a request of the first unanswered for ever     *)
(***************************************************************************)
InitPair == Init /\ workload.name = "pair"

NextPair ==
  \/ \E r \in Reqs, key \in Keys, full \in BOOLEAN : Start(r, key, full)
  \/ \E r \in Reqs, resp \in AnyRepoResponse : RepoResponse(r, resp)
  \/ \E r \in Reqs, p \in PageNumbers, resp \in AnyPageResponse : PageResponse(r, p, resp)
  \/ \E r \in Reqs, resp \in RateResponses : RateResponse(r, resp)

\* every upstream call of invocation r returns
Answered(r) ==
  /\ WF_vars(\E resp \in AnyRepoResponse : RepoResponse(r, resp))
  /\ WF_vars(\E p \in PageNumbers, resp \in AnyPageResponse : PageResponse(r, p, resp))
  /\ WF_vars(\E resp \in RateResponses : RateResponse(r, resp))

SpecStall == InitPair /\ [][NextPair]_vars /\ Answered(2)

(***************************************************************************)
(* One invocation on a repository of three or of eleven pages, where the   *)
(* upstream answers every request it makes                                 *)
(***************************************************************************)
InitAnswered == Init /\ workload.name \in {"trio", "solo"}

SpecAnswered == InitAnswered /\ [][NextPair]_vars /\ Answered(1)

(***************************************************************************)
(* Two invocations for one key, the second after the first has returned:   *)
(* the first fetches a sample of a large repository, or a repository of    *)
(* eleven pages where a page may be rate limited; the second asks for the  *)
(* full scan.  Time passes in the first case only.                         *)
(***************************************************************************)
ReuseWorkloads ==
  { [ name  |-> "sampled", reqs |-> {1, 2},
      keys  |-> [r \in Reqs |-> {"o/a"}],
      fulls |-> [r \in Reqs |-> {r = 2}],
      stars |-> {(MaxQuickPages + 1) * starsPerPage}, sizes |-> {1}, inOrder |-> TRUE,
      serial |-> TRUE, faulty |-> {},
      zones |-> {z \in TimeZones : z.name = "UTC"},
      clock |-> {StartTime, StartTime + CACHE_TTL - 1} ],
    [ name  |-> "stopped", reqs |-> {1, 2},
      keys  |-> [r \in Reqs |-> {"o/a"}],
      fulls |-> [r \in Reqs |-> {r = 2}],
      stars |-> {BATCH_SIZE * starsPerPage + 1}, sizes |-> {1}, inOrder |-> TRUE,
      serial |-> TRUE, faulty |-> {f \in FaultyPages : f.kind = "http" /\ f.status = 403},
      zones |-> {z \in TimeZones : z.name = "UTC"}, clock |-> {StartTime} ] }

InitReuse ==
  /\ workload \in ReuseWorkloads
  /\ zone \in workload.zones
  /\ now = StartTime
  /\ faults = 0
  /\ starCache = EmptyMap
  /\ req = [r \in Reqs |-> IdleReq]
  /\ log = [r \in Reqs |-> IdleLog]
  /\ PureIdle

\* the pages of a repository of 101 pages
ReusePages == 1..(MaxQuickPages + 1)

\* the answers to the request of page p: none, rate limited, or a page of one stargazer
ReuseAnswers(p) ==
  { [kind |-> "reject"], [kind |-> "http", status |-> 403],
    [kind |-> "http", status |-> 200, body |-> PageBody(p, 1)] }

NextReuse ==
  \/ \E r \in Reqs, key \in Keys, full \in BOOLEAN : Start(r, key, full)
  \/ \E r \in Reqs, resp \in AnyRepoResponse \cup UNION {RepoResponses(w) : w \in ReuseWorkloads} :
       RepoResponse(r, resp)
  \/ \E r \in Reqs, p \in ReusePages : \E resp \in ReuseAnswers(p) : PageResponse(r, p, resp)
  \/ \E r \in Reqs, resp \in RateResponses : RateResponse(r, resp)
  \/ Tick

SpecReuse == InitReuse /\ [][NextReuse]_vars

(***************************************************************************)
(* The planner on its own: PagesToFetch applied to a range of totals       *)
(***************************************************************************)
HandlerIdle ==
  /\ workload \in {w \in Workloads : w.name = "solo"}
  /\ zone \in workload.zones
  /\ now = StartTime
  /\ faults = 0
  /\ starCache = EmptyMap
  /\ req = [r \in Reqs |-> IdleReq]
  /\ log = [r \in Reqs |-> IdleLog]

\* totals at and next to the page boundaries, up to MaxPlanPages pages
PlanStars ==
  {n \in {p * starsPerPage - d : p \in 0..MaxPlanPages, d \in {0, 1, starsPerPage - 1}} : n >= 0}

InitPlan ==
  /\ HandlerIdle
  /\ plan \in [totalStars : PlanStars, fetchFull : BOOLEAN, done : {FALSE}, pages : {<<>>}]
  /\ series = [done |-> FALSE]

PlanStep ==
  /\ ~plan.done
  /\ plan' = [plan EXCEPT !.done = TRUE, !.pages = PagesToFetch(plan.totalStars, plan.fetchFull)]
  /\ UNCHANGED <<zone, workload, now, faults, starCache, req, log, series>>

NextPlan == PlanStep

SpecPlan == InitPlan /\ [][NextPlan]_vars

(***************************************************************************)
(* The series builder on its own: BuildSeries applied to a range of        *)
(* creation days, request instants, reported totals and stargazer lists    *)
(***************************************************************************)
\* a repository older than the hourly window, one created on FirstDay and one
\* created on the last day
CreatedDays == {FirstDay - HourlyWindowDays, FirstDay, FirstDay + MaxSpan}

Todays(createdAt) ==
  {At(d, h) : d \in {x \in FirstDay..(FirstDay + MaxSpan) : x >= createdAt}, h \in {0, 12, 23}}

\* stargazers of the creation day, of the day after FirstDay and of this
\* very hour, and one the upstream sent without starred_at
SeriesStargazers(createdAt, today) ==
  { [starred_at |-> t, user |-> "u"] :
      t \in {x \in {At(createdAt, 10), At(FirstDay + 1, 10), today} : x <= today} }
  \cup { [user |-> "u"] }

SeqsUpTo(S, n) == UNION { [1..k -> S] : k \in 0..n }

InitSeries ==
  /\ HandlerIdle
  /\ plan = [totalStars |-> 0, fetchFull |-> FALSE, done |-> FALSE, pages |-> <<>>]
  /\ \E z \in TimeZones, createdAt \in CreatedDays, totalStars \in 0..MaxSeriesStars :
       \E today \in Todays(createdAt) :
         \E stargazers \in SeqsUpTo(SeriesStargazers(createdAt, today), MaxSeriesEvents) :
           series = [ done |-> FALSE, zone |-> z, createdAt |-> createdAt, today |-> today,
                      totalStars |-> totalStars, allStargazers |-> stargazers ]

SeriesStep ==
  /\ ~series.done
  /\ series' = [ done |-> TRUE, zone |-> series.zone, createdAt |-> series.createdAt,
                 today |-> series.today, totalStars |-> series.totalStars,
                 allStargazers |-> series.allStargazers,
                 body |-> BuildSeries(series.zone, series.createdAt, series.today,
                                      series.totalStars, series.allStargazers) ]
  /\ UNCHANGED <<zone, workload, now, faults, starCache, req, log, plan>>

NextSeries == SeriesStep

SpecSeries == InitSeries /\ [][NextSeries]_vars

(***************************************************************************)
(* The trend calculation on its own: Trends applied to daily histories     *)
(* shorter than, as long as and longer than the two windows of 30 entries  *)
(***************************************************************************)
HistoryLengths == {n \in {0, 1, 7, 29, 30, 31, 59, 60, MaxHistory} : n <= MaxHistory}

\* stars of the last 30 entries and of the 30 entries before them
Sums30 == {0, 8, 9, 10, 11, 12, 85, 89, 90, 91, 95, 109, 110, 111, 115}
SumsPrev30 == {0, 1, 10, 100}

\* the stars of day i of a history of len days: those of each window fall
\* half on its first and half on its last day, the older ones on the day
\* before the windows
DailyOf(i, len, sum30, sumPrev30, older) ==
    (IF i = len THEN sum30 \div 2 ELSE 0)
  + (IF i = len - 29 THEN sum30 - sum30 \div 2 ELSE 0)
  + (IF i = len - 30 THEN sumPrev30 \div 2 ELSE 0)
  + (IF i = len - 59 THEN sumPrev30 - sumPrev30 \div 2 ELSE 0)
  + (IF i = len - 60 THEN older ELSE 0)

\* the stars of the days 1..i of that history
RunningSum(i, len, sum30, sumPrev30, older) ==
  LET upTo(day, stars) == IF 1 <= day /\ day <= i THEN stars ELSE 0
  IN    upTo(len, sum30 \div 2)
      + upTo(len - 29, sum30 - sum30 \div 2)
      + upTo(len - 30, sumPrev30 \div 2)
      + upTo(len - 59, sumPrev30 - sumPrev30 \div 2)
      + upTo(len - 60, older)

\* the entries lo..hi of the daily history the daily loop builds from such
\* events, all observed
RECURSIVE HistoryOf(_, _, _, _, _, _)
HistoryOf(lo, hi, len, sum30, sumPrev30, older) ==
  IF hi < lo THEN <<>>
  ELSE IF lo = hi
    THEN << [ date       |-> FirstDay + lo - 1,
              daily      |-> DailyOf(lo, len, sum30, sumPrev30, older),
              cumulative |-> RunningSum(lo, len, sum30, sumPrev30, older) ] >>
  ELSE LET mid == (lo + hi) \div 2
       IN  HistoryOf(lo, mid, len, sum30, sumPrev30, older)
             \o HistoryOf(mid + 1, hi, len, sum30, sumPrev30, older)

InitTrend ==
  /\ HandlerIdle
  /\ plan = [totalStars |-> 0, fetchFull |-> FALSE, done |-> FALSE, pages |-> <<>>]
  /\ \E len \in HistoryLengths, sum30 \in Sums30, sumPrev30 \in SumsPrev30, older \in {0, 50} :
       series = [ done |-> FALSE, createdAt |-> FirstDay,
                  totalStars |-> RunningSum(len, len, sum30, sumPrev30, older),
                  dailyHistory |-> HistoryOf(1, len, len, sum30, sumPrev30, older) ]

TrendStep ==
  /\ ~series.done
  /\ series' = [ done |-> TRUE, createdAt |-> series.createdAt,
                 totalStars |-> series.totalStars, dailyHistory |-> series.dailyHistory,
                 trends |-> Trends(series.dailyHistory, series.totalStars, series.createdAt) ]
  /\ UNCHANGED <<zone, workload, now, faults, starCache, req, log, plan>>

NextTrend == TrendStep

SpecTrend == InitTrend /\ [][NextTrend]_vars

(***************************************************************************)
(* The completeness correction on its own: dataCompleteness and the        *)
(* scaling applied to the daily histories of three days and a range of     *)
(* reported totals                                                         *)
(***************************************************************************)
\* few stars, exactly twice and three times the most of one day, and totals
\* at which a scaled count or the completeness falls halfway between two
\* roundings (7 of 14 of 61, 23 of 80)
ReportedTotals == (0..4) \cup {2 * MaxDaily, 3 * MaxDaily, 61, 80}

\* the history the daily loop builds from the stars of each day
RECURSIVE HistoryOfCounts(_, _, _)
HistoryOfCounts(counts, i, cumulative) ==
  IF i > Len(counts) THEN <<>>
  ELSE << [date |-> FirstDay + i - 1, daily |-> counts[i], cumulative |-> cumulative + counts[i]] >>
         \o HistoryOfCounts(counts, i + 1, cumulative + counts[i])

InitScale ==
  /\ HandlerIdle
  /\ plan = [totalStars |-> 0, fetchFull |-> FALSE, done |-> FALSE, pages |-> <<>>]
  /\ \E counts \in [1..3 -> 0..MaxDaily], totalStars \in ReportedTotals :
       series = [ done |-> FALSE, totalStars |-> totalStars,
                  unscaled |-> HistoryOfCounts(counts, 1, 0) ]

ScaleStep ==
  /\ ~series.done
  /\ LET cumulative == Observed(series.unscaled)
     IN  series' = [ done |-> TRUE, totalStars |-> series.totalStars,
                     unscaled |-> series.unscaled,
                     observed |-> cumulative,
                     dataCompleteness |-> DataCompleteness(cumulative, series.totalStars),
                     dailyHistory |-> ScaleHistory(series.unscaled, series.totalStars, cumulative) ]
  /\ UNCHANGED <<zone, workload, now, faults, starCache, req, log, plan>>

NextScale == ScaleStep

SpecScale == InitScale /\ [][NextScale]_vars

(***************************************************************************)
(* Properties                                                              *)
(***************************************************************************)
RECURSIVE SumDaily(_)
SumDaily(dailyHistory) ==
  IF Len(dailyHistory) = 0 THEN 0
  ELSE Head(dailyHistory).daily + SumDaily(Tail(dailyHistory))

NonDecreasing(dailyHistory) ==
  \A k \in 1..(Len(dailyHistory) - 1) :
    dailyHistory[k].cumulative <= dailyHistory[k + 1].cumulative

LastCumulative(dailyHistory) == dailyHistory[Len(dailyHistory)].cumulative

\* C1, as stated: cumulativeCount is non-decreasing across dailyHistory and,
\* whenever observedTotal > 0, the last cumulativeCount equals reportedTotal.
C1_AsStated ==
  series.done =>
    /\ NonDecreasing(series.body.dailyHistory)
    /\ series.body.observed > 0 =>
         LastCumulative(series.body.dailyHistory) = series.totalStars

\* C1, amended: cumulativeCount is non-decreasing across dailyHistory and,
\* whenever 0 < observedTotal <= reportedTotal, the last cumulativeCount
\* equals reportedTotal (more events observed than reported are not scaled
\* down: the last cumulativeCount is then observedTotal).
C1_CumulativeReachesTotal ==
  series.done =>
    /\ NonDecreasing(series.body.dailyHistory)
    /\ (0 < series.body.observed /\ series.body.observed <= series.totalStars) =>
         LastCumulative(series.body.dailyHistory) = series.totalStars
    /\ series.body.observed > series.totalStars =>
         LastCumulative(series.body.dailyHistory) = series.body.observed

\* a partial fetch whose cumulative counts were scaled up over several days
C1_Witness ==
  /\ series.done
  /\ 0 < series.body.observed /\ series.body.observed < series.totalStars
  /\ Len(series.body.dailyHistory) >= 2
  /\ \E k \in 1..Len(series.body.dailyHistory) :
       /\ series.body.dailyHistory[k].cumulative > 0
       /\ series.body.dailyHistory[k].cumulative < series.totalStars

\* C2: dailyHistory has (today - createdAt in whole days) + 1 entries, the
\* first dated createdAt and the last dated today, and each entry is dated
\* one calendar day after the entry before it.
C2_DenseDays ==
  series.done =>
    LET dailyHistory == series.body.dailyHistory
        days == (series.today - series.createdAt * TicksPerDay) \div TicksPerDay
    IN  /\ Len(dailyHistory) = days + 1
        /\ dailyHistory[1].date = series.createdAt
        /\ dailyHistory[Len(dailyHistory)].date = series.today \div TicksPerDay
        /\ \A k \in 1..(Len(dailyHistory) - 1) :
             dailyHistory[k + 1].date = dailyHistory[k].date + 1

\* C3, as stated: after the completeness correction the sum of dailyCount
\* over dailyHistory equals the reported total.
C3_AsStated ==
  series.done => SumDaily(series.body.dailyHistory) = series.totalStars

\* C3, amended: after the completeness correction the sum of dailyCount over
\* dailyHistory equals observedTotal, the number of events bucketed, and so
\* equals the reported total exactly when as many events were observed as
\* reported.
C3_DailySumIsObserved ==
  series.done =>
    /\ SumDaily(series.body.dailyHistory) = series.body.observed
    /\ SumDaily(series.body.dailyHistory) = series.totalStars
         <=> series.body.observed = series.totalStars

\* the correction was applied to a history holding two events or more
C3_Witness ==
  /\ series.done
  /\ series.body.observed < series.totalStars
  /\ SumDaily(series.body.dailyHistory) >= 2
  /\ LastCumulative(series.body.dailyHistory) = series.totalStars

\* the pages of a collection of totalItems items: ceil(totalItems / 100)
PagesOf(totalItems) == (totalItems + 99) \div 100

\* C7: the planned page list is strictly increasing (so without duplicates),
\* every page is in 1..totalPages, and without fullScan it has at most 100 pages.
C7_PlanWellFormed ==
  plan.done =>
    /\ \A k \in 1..(Len(plan.pages) - 1) : plan.pages[k] < plan.pages[k + 1]
    /\ \A k \in 1..Len(plan.pages) : 1 <= plan.pages[k] /\ plan.pages[k] <= PagesOf(plan.totalStars)
    /\ ~plan.fetchFull => Len(plan.pages) <= 100

\* a sampled plan: more than 100 pages and no full scan
C7_Witness ==
  /\ plan.done /\ ~plan.fetchFull
  /\ PagesOf(plan.totalStars) > 100
  /\ Len(plan.pages) = 100

C9_FullPlan ==
  (plan.done /\ (plan.fetchFull \/ PagesOf(plan.totalStars) <= 100)) =>
    plan.pages = [k \in 1..PagesOf(plan.totalStars) |-> k]

\* a full scan of more than 100 pages
C9_Witness ==
  /\ plan.done /\ plan.fetchFull
  /\ PagesOf(plan.totalStars) > 100
  /\ Len(plan.pages) = PagesOf(plan.totalStars)

\* the stargazers the upstream delivered in the given pages, in page order
RECURSIVE Gathered(_, _)
Gathered(pages, delivered) ==
  IF Len(pages) = 0 THEN <<>>
  ELSE delivered[Head(pages)] \o Gathered(Tail(pages), delivered)

\* the planned pages up to the end of the batch that starts after index
UpToBatch(q, index) == SubSeq(q.pagesToFetch, 1, Min(index + 10, Len(q.pagesToFetch)))

\* the batch that starts after index held a rate-limited page and the quota
\* then queried was below 10
LimitedAndLow(r, e) ==
  /\ "remaining" \in DOMAIN e.rate
  /\ e.rate.remaining < 10
  /\ \E p \in DOMAIN log[r].class :
       /\ log[r].class[p] = "limited"
       /\ \E k \in (e.index + 1)..Min(e.index + 10, Len(req[r].pagesToFetch)) :
            req[r].pagesToFetch[k] = p

\* C4: once a batch held a rate-limited page and the quota then queried was
\* below 10, no page of a later batch is requested and the request has
\* returned a successful result built from the events gathered up to and
\* including that batch.
C4_LowQuotaStops ==
  \A r \in Reqs : \A k \in 1..Len(log[r].quotaSeen) :
    LimitedAndLow(r, log[r].quotaSeen[k]) =>
      /\ req[r].pc = "done"
      /\ req[r].response.status = 200
      /\ log[r].pages = UpToBatch(req[r], log[r].quotaSeen[k].index)
      /\ "body" \in DOMAIN req[r].response
      /\ req[r].response.body =
           BuildSeries(zone, req[r].createdAt, req[r].today, req[r].totalStars,
                       Gathered(log[r].pages, log[r].delivered))

\* the first batch of an eleven-page plan was stopped: page 11 never requested
C4_Witness ==
  \E r \in Reqs :
    /\ Len(req[r].pagesToFetch) = 11
    /\ Len(log[r].quotaSeen) = 1
    /\ LimitedAndLow(r, log[r].quotaSeen[1])
    /\ Len(log[r].pages) = 10
    /\ Len(req[r].allStargazers) = 9

\* C5, as stated (for requests all of whose upstream calls completed): a page
\* classified Error contributes no events and aborts nothing: every batch of
\* the plan is issued, the other pages contribute their events and the
\* request returns a successful result.
C5_AsStated ==
  \A r \in Reqs :
    (/\ req[r].pc = "done"
     /\ ~log[r].thrown
     /\ \E p \in DOMAIN log[r].class : log[r].class[p] = "error") =>
      /\ req[r].response.status = 200
      /\ log[r].pages = req[r].pagesToFetch
      /\ req[r].allStargazers = Gathered(req[r].pagesToFetch, log[r].delivered)

\* C6: the page requests and quota queries of a request number at most
\* planned_pages + ceil(planned_pages / 10): every planned page is requested
\* at most once, and there is at most one quota query per batch issued.
C6_RequestBound ==
  \A r \in Reqs :
    LET planned == Len(req[r].pagesToFetch)
        asked   == log[r].pages
    IN  /\ Len(asked) + log[r].quota <= planned + (planned + 9) \div 10
        /\ \A j, k \in 1..Len(asked) : j # k => asked[j] # asked[k]
        /\ \A j \in 1..Len(asked) : \E k \in 1..planned : req[r].pagesToFetch[k] = asked[j]
        /\ log[r].quota <= (Len(asked) + 9) \div 10

\* all eleven pages of a plan were requested, and the quota once
C6_Witness ==
  \E r \in Reqs :
    /\ req[r].pc = "done"
    /\ Len(req[r].pagesToFetch) = 11
    /\ Len(log[r].pages) = 11
    /\ log[r].quota = 1

\* the repository request got no response, or a response that is not 2xx
SummaryFailed(r) ==
  \/ log[r].repoStatus = -1
  \/ log[r].repoStatus # 0 /\ ~(200 <= log[r].repoStatus /\ log[r].repoStatus <= 299)

\* C10: when the summary fetch fails the request ends with one top-level
\* error and no result body, and requests no page and no quota.
C10_SummaryFailureIsFatal ==
  \A r \in Reqs :
    SummaryFailed(r) =>
      /\ req[r].pc = "done"
      /\ DOMAIN req[r].response = {"status", "error"}
      /\ req[r].response.status \in {403, 500}
      /\ log[r].pages = <<>>
      /\ log[r].quota = 0
      /\ log[r].repo = 1

\* a request whose repository request was answered 404, and one that got no answer
C10_Witness ==
  /\ \E r \in Reqs : log[r].repoStatus = 404 /\ req[r].response.status = 500
  /\ \E r \in Reqs : log[r].repoStatus = -1

\* the fields of a successful result
ResultFields ==
  { "totalStars", "createdAt", "ageInDays", "avgStarsPerDay", "dailyHistory",
    "hourlyActivity", "trends", "recentActivity", "dataCompleteness" }

\* C11: every request ends either with a successful result carrying all the
\* result fields or with a single top-level error, and once the summary fetch
\* has succeeded incomplete data (rate-limited pages, failed pages, early
\* termination, no events at all) never produces the error outcome.
C11_AsStated ==
  \A r \in Reqs :
    req[r].pc = "done" =>
      LET response == req[r].response
      IN  /\ \/ /\ DOMAIN response = {"status", "body"}
                /\ response.status = 200
                /\ ResultFields \subseteq DOMAIN response.body
             \/ DOMAIN response = {"status", "error"}
          /\ ~SummaryFailed(r) => response.status = 200

\* the quota queried after the batch at e.index was below 10 while batches of
\* the plan were still to be issued
StoppedEarly(r, e) ==
  /\ "remaining" \in DOMAIN e.rate
  /\ e.rate.remaining < 10
  /\ e.index + 10 < Len(req[r].pagesToFetch)

\* C12: whenever fetching stops early because the quota is exhausted
\* mid-fetch, the request returns a successful result whose dataCompleteness
\* is below 100 (dataCompleteness is held in tenths of a percent).
C12_AsStated ==
  \A r \in Reqs : \A k \in 1..Len(log[r].quotaSeen) :
    StoppedEarly(r, log[r].quotaSeen[k]) =>
      /\ req[r].pc = "done"
      /\ req[r].response.status = 200
      /\ req[r].response.body.dataCompleteness < 1000

\* seven days, in ticks
SevenDays == 7 * 24 * TicksPerHour

\* the first batch of the plan for totalItems items
FirstBatch(totalItems) == [k \in 1..Min(10, PagesOf(totalItems)) |-> k]

\* what a request did with the entry it found: an entry younger than seven
\* days is served (no page, no quota query, the series of the cached events);
\* an entry aged seven days or more is not, and the pages are fetched anew
LookupDecides(r) ==
  LET found == log[r].lookup IN
  /\ (found.found /\ found.age < SevenDays) =>
        /\ log[r].pages = <<>>
        /\ log[r].quota = 0
        /\ req[r].pc = "done"
        /\ req[r].response.status = 200
        /\ req[r].response.body =
             BuildSeries(zone, req[r].createdAt, req[r].today, req[r].totalStars, found.data)
  /\ (found.found /\ found.age >= SevenDays) =>
        /\ Len(log[r].pages) >= Len(FirstBatch(req[r].totalStars))
        /\ SubSeq(log[r].pages, 1, Len(FirstBatch(req[r].totalStars)))
             = FirstBatch(req[r].totalStars)

\* a step keeps every entry of the store, or replaces it as a whole by the
\* events of a fetch that finishes in that step
EntriesKept ==
  \A k \in DOMAIN starCache :
    /\ k \in DOMAIN starCache'
    /\ \/ starCache'[k] = starCache[k]
       \/ \E r \in Reqs :
            /\ req[r].pc \in {"repo", "pages", "rate"} /\ req'[r].pc = "done"
            /\ req[r].key = k /\ ~(log'[r].lookup.found /\ log'[r].lookup.age < SevenDays)
            /\ starCache'[k] = [timestamp |-> now, data |-> req'[r].allStargazers]

\* C13: a lookup treats the stored entry as a hit if and only if
\* now - entry.fetchedAt < 7 days; an entry aged exactly 7 days or more is a
\* miss that triggers a new fetch, and the stale entry stays in the store
\* until a later fetch replaces it.
C13_FreshnessDecides ==
  /\ [](\A r \in Reqs : LookupDecides(r))
  /\ [][EntriesKept]_vars

\* an entry aged exactly seven days was found, fetching started anew and the
\* stale entry is still in the store
C13_Witness ==
  \E r \in Reqs :
    /\ log[r].lookup.found /\ log[r].lookup.age = SevenDays
    /\ req[r].pc = "pages" /\ log[r].pages = <<1>>
    /\ req[r].key \in DOMAIN starCache
    /\ now - starCache[req[r].key].timestamp = SevenDays

\* request r has finished a fetch of its own and events is all that its page
\* requests were answered with, in the order of the plan
FinishedFetchOf(r, key, events) ==
  /\ req[r].pc = "done"
  /\ req[r].key = key
  /\ log[r].pages # <<>>
  /\ DOMAIN log[r].delivered = SeqToSet(log[r].pages)
  /\ events = Gathered(log[r].pages, log[r].delivered)

\* every entry of the store, and every entry a request found there, holds
\* the whole of one finished fetch
EntriesComplete ==
  /\ \A k \in DOMAIN starCache : \E r \in Reqs : FinishedFetchOf(r, k, starCache[k].data)
  /\ \A r \in Reqs :
       log[r].lookup.found =>
         \E o \in Reqs \ {r} : FinishedFetchOf(o, req[r].key, log[r].lookup.data)

\* a step leaves the events of an entry as they are, or puts the whole of a
\* fetch finished in that step in their place
EntriesWhole ==
  \A k \in DOMAIN starCache :
    /\ k \in DOMAIN starCache'
    /\ \/ starCache'[k].data = starCache[k].data /\ starCache'[k].timestamp = starCache[k].timestamp
       \/ \E r \in Reqs :
            /\ req[r].pc # "done"
            /\ req'[r].pc = "done" /\ req'[r].key = k /\ log'[r].pages # <<>>
            /\ starCache'[k].data = Gathered(log'[r].pages, log'[r].delivered)

\* C14: under every interleaving of concurrent requests each cache entry's
\* event sequence is the complete final accumulation of one single finished
\* fetch: no request reads a partially accumulated list or a mixture of two
\* requests' events, and the events of an entry are never modified after the
\* entry is stored, only replaced as a whole.
C14_EntriesAreWholeFetches ==
  /\ []EntriesComplete
  /\ [][EntriesWhole]_vars

\* two requests for one key fetched at the same time and were answered with
\* different events; the entry holds the events of the one that stored last
C14_Witness ==
  /\ \A r \in Reqs : req[r].pc = "done" /\ req[r].key = "o/a" /\ log[r].pages = <<1>>
  /\ ~log[1].lookup.found /\ ~log[2].lookup.found
  /\ Len(req[1].allStargazers) = 2 /\ Len(req[2].allStargazers) = 1
  /\ "o/a" \in DOMAIN starCache
  /\ starCache["o/a"].data = req[2].allStargazers

\* both requests are for one key, neither was served from the store, and
\* both have returned a result with events
BothFetched ==
  /\ req[1].key = req[2].key
  /\ \A r \in Reqs :
       /\ req[r].pc = "done" /\ req[r].response.status = 200
       /\ ~(log[r].lookup.found /\ log[r].lookup.age < SevenDays)
       /\ Len(req[r].allStargazers) > 0

\* C15: two requests for the same key that both miss run their own complete
\* sequence of page fetches (no in-flight work is shared), and when both
\* finish with non-empty results the cache entry is the result of whichever
\* request stored last.
C15_LastWriterWins ==
  BothFetched =>
    /\ \A r \in Reqs :
         /\ log[r].pages = [k \in 1..PagesOf(req[r].totalStars) |-> k]
         /\ DOMAIN log[r].delivered = SeqToSet(log[r].pages)
         /\ req[r].allStargazers = Gathered(log[r].pages, log[r].delivered)
    /\ \A r \in Reqs :
         (\A o \in Reqs : log[o].finished <= log[r].finished) =>
           /\ req[r].key \in DOMAIN starCache
           /\ starCache[req[r].key].data = req[r].allStargazers

\* neither request found an entry, so both fetched at the same time; the one
\* that started first returned last, with other events, and its events are
\* the entry
C15_Witness ==
  /\ BothFetched
  /\ ~log[1].lookup.found /\ ~log[2].lookup.found
  /\ log[1].finished = 2 /\ log[2].finished = 1
  /\ req[1].allStargazers # req[2].allStargazers
  /\ starCache[req[1].key].data = req[1].allStargazers

Reverse(sq) == [k \in 1..Len(sq) |-> sq[Len(sq) + 1 - k]]

\* the events request r was answered with, in the order of the plan, in the
\* order the responses came in, and each of the two backwards
EventOrders(r) ==
  LET planned == Gathered(log[r].pages, log[r].delivered)
      inTime  == Gathered(log[r].arrived, log[r].delivered)
  IN  {planned, inTime, Reverse(planned), Reverse(inTime)}

\* the parts of a result the order of the events might show in
OrderedParts(body) ==
  <<body.dailyHistory, body.hourlyActivity, body.trends, body.dataCompleteness>>

\* C16: for fixed fetched events and fixed (reportedTotal, createdAt, today)
\* the dailyHistory, hourlyActivity, trends and dataCompleteness produced are
\* the same for every order in which the events are supplied and for every
\* completion order of the page fetches of a batch.
\* The result was built from the events in the order of the plan; it is
\* compared with the result of every other order.
C16_OrderIndependent ==
  \A r \in Reqs :
    (/\ req[r].pc = "done" /\ req[r].response.status = 200
     /\ DOMAIN log[r].delivered = SeqToSet(log[r].pages)
     /\ log[r].pages # <<>>) =>
      LET planned == Gathered(log[r].pages, log[r].delivered)
      IN  /\ req[r].allStargazers = planned
          /\ \A events \in EventOrders(r) \ {planned} :
               OrderedParts(BuildSeries(zone, req[r].createdAt, req[r].today,
                                        req[r].totalStars, events))
                 = OrderedParts(req[r].response.body)

\* the three pages of a batch were answered last page first, each with an event
C16_Witness ==
  \E r \in Reqs :
    /\ req[r].pc = "done" /\ req[r].response.status = 200
    /\ log[r].pages = <<1, 2, 3>> /\ log[r].arrived = <<3, 2, 1>>
    /\ Len(req[r].allStargazers) = 3
    /\ req[r].response.body.observed = 3

\* C17: if the upstream never answers a fetch of one request, every other
\* concurrently running request whose own upstream calls all return still
\* eventually completes with its result or its error: request 2, all of
\* whose calls return, completes whether or not request 1 is ever answered.
C17_OthersComplete ==
  (req[2].pc # "idle") ~> (req[2].pc = "done" /\ req[2].response.status \in {200, 403, 500})

\* request 2 started after request 1, fetched a page and returned while
\* request 1 still waits for an answer
C17_Witness ==
  /\ req[1].pc \in {"repo", "pages", "rate"}
  /\ req[2].pc = "done" /\ log[2].pages = <<1>>
  /\ req[2].key = req[1].key

\* the sum of dailyCount over the entries from..to of a history
RECURSIVE WindowSum(_, _, _)
WindowSum(dailyHistory, from, to) ==
  IF to < from THEN 0 ELSE WindowSum(dailyHistory, from, to - 1) + dailyHistory[to].daily

\* in tenths: 10 * (sum30 - sumPrev30) / sumPrev30 against 1 and -1, as exact ratios
ChangeAbove(sum30, sumPrev30) == sumPrev30 > 0 /\ 10 * (sum30 - sumPrev30) > sumPrev30
ChangeBelow(sum30, sumPrev30) == sumPrev30 > 0 /\ 10 * (sum30 - sumPrev30) < 0 - sumPrev30

\* C18: with sum30 the stars of the last 30 entries and sumPrev30 those of the
\* 30 entries before them, the direction is up iff the change is above 10% or
\* sumPrev30 = 0 and sum30 > 10, down iff sumPrev30 > 0 and the change is
\* below -10%, and stable in every other case.
C18_TrendDirection ==
  series.done =>
    LET h         == series.dailyHistory
        len       == Len(h)
        sum30     == WindowSum(h, IF len > 30 THEN len - 29 ELSE 1, len)
        sumPrev30 == WindowSum(h, IF len > 60 THEN len - 59 ELSE 1, len - 30)
        up        == ChangeAbove(sum30, sumPrev30) \/ (sumPrev30 = 0 /\ sum30 > 10)
        down      == ChangeBelow(sum30, sumPrev30)
        direction == series.trends.trend
    IN  /\ direction = "up" <=> up
        /\ direction = "down" <=> down
        /\ direction = "stable" <=> (~up /\ ~down)

\* a history longer than both windows whose last 30 days have exactly 10%
\* more stars than the 30 before them: 100, then 110, classified stable
C18_Witness ==
  /\ series.done
  /\ Len(series.dailyHistory) > 60
  /\ WindowSum(series.dailyHistory, Len(series.dailyHistory) - 59, Len(series.dailyHistory) - 30) = 100
  /\ WindowSum(series.dailyHistory, Len(series.dailyHistory) - 29, Len(series.dailyHistory)) = 110
  /\ series.trends.trend = "stable"

\* the unscaled running sum of dailyCount up to entry k
RunningSumTo(dailyHistory, k) == WindowSum(dailyHistory, 1, k)

\* C19, as stated: if 0 < observedTotal < reportedTotal every cumulativeCount
\* equals round(runningSum * reportedTotal / observedTotal), a half rounded
\* up as Math.round does; otherwise it equals the running sum.
C19_AsStated ==
  series.done =>
    \A k \in 1..Len(series.dailyHistory) :
      LET runningSum == RunningSumTo(series.dailyHistory, k)
      IN  series.dailyHistory[k].cumulative =
            IF 0 < series.observed /\ series.observed < series.totalStars
              THEN (2 * runningSum * series.totalStars + series.observed) \div (2 * series.observed)
              ELSE runningSum

\* C19, amended: if 0 < observedTotal < reportedTotal every cumulativeCount is
\* an integer nearest to runningSum * reportedTotal / observedTotal (at most
\* 1/2 away from it; when that value lies exactly halfway between two
\* integers the result is one of the two, not always the larger); if
\* observedTotal = 0 or observedTotal >= reportedTotal it equals the
\* unscaled running sum.
C19_ScaledToNearest ==
  series.done =>
    \A k \in 1..Len(series.dailyHistory) :
      LET runningSum == RunningSumTo(series.dailyHistory, k)
          scaled     == series.dailyHistory[k].cumulative
          off        == scaled * series.observed - runningSum * series.totalStars
      IN  IF 0 < series.observed /\ series.observed < series.totalStars
            THEN 2 * off <= series.observed /\ 0 - 2 * off <= series.observed
            ELSE scaled = runningSum

\* one event on the second of three days and a reported total of 4: the
\* cumulative counts are 0, 4, 4 and dataCompleteness is 25
C19_Witness ==
  /\ series.done
  /\ series.totalStars = 4
  /\ series.observed = 1
  /\ [k \in 1..3 |-> series.unscaled[k].daily] = <<0, 1, 0>>
  /\ [k \in 1..3 |-> series.dailyHistory[k].cumulative] = <<0, 4, 4>>
  /\ series.dataCompleteness = 250

\* C20, as stated: dataCompleteness equals observedTotal / reportedTotal * 100,
\* is 100 when reportedTotal = 0, and lies in [0, 100] whenever
\* reportedTotal >= observedTotal (dataCompleteness is held in tenths).
C20_AsStated ==
  series.done =>
    /\ series.totalStars > 0 =>
         series.dataCompleteness * series.totalStars = 1000 * series.observed
    /\ series.totalStars = 0 => series.dataCompleteness = 1000
    /\ series.totalStars >= series.observed =>
         0 <= series.dataCompleteness /\ series.dataCompleteness <= 1000

\* C20, amended: dataCompleteness is observedTotal / reportedTotal * 100
\* rounded to one decimal (a multiple of 0.1 at most 0.05 away from it), is
\* 100 when reportedTotal = 0, and lies in [0, 100] whenever
\* reportedTotal >= observedTotal.
C20_RoundedToOneDecimal ==
  series.done =>
    /\ series.totalStars > 0 =>
         LET off == series.dataCompleteness * series.totalStars - 1000 * series.observed
         IN  2 * off <= series.totalStars /\ 0 - 2 * off <= series.totalStars
    /\ series.totalStars = 0 => series.dataCompleteness = 1000
    /\ series.totalStars >= series.observed =>
         0 <= series.dataCompleteness /\ series.dataCompleteness <= 1000

\* one event observed of three reported: dataCompleteness is 33.3
C20_Witness ==
  /\ series.done
  /\ series.totalStars = 3
  /\ series.observed = 1
  /\ series.dataCompleteness = 333


(***************************************************************************)
(* Which events a request accumulates                                      *)
(***************************************************************************)
\* the request was answered from the store
ServedFromCache(r) == log[r].lookup.found /\ log[r].lookup.age < CACHE_TTL

\* those of the given pages whose fetch was classified Ok
OkAmong(r, pages) ==
  LET IsOk(p) == p \in DOMAIN log[r].class /\ log[r].class[p] = "ok"
  IN  SelectSeq(pages, IsOk)

\* C21: the events a request has accumulated are events returned by its page
\* fetches classified Ok and no others: they are the events of the Ok pages
\* of the batches completed so far, a rate-limited or failed page adds none,
\* and their number never exceeds the number of events the Ok pages delivered.
C21_OnlyOkEvents ==
  \A r \in Reqs :
    ~ServedFromCache(r) =>
      LET okEvents == Gathered(OkAmong(r, log[r].arrived), log[r].delivered) IN
      /\ SeqToSet(req[r].allStargazers) \subseteq SeqToSet(okEvents)
      /\ Len(req[r].allStargazers) <= Len(okEvents)
      /\ \E n \in 0..Len(log[r].pages) :
           req[r].allStargazers =
             Gathered(OkAmong(r, SubSeq(log[r].pages, 1, n)), log[r].delivered)

\* a request returned after a batch in which one page was rate limited or
\* failed and the others delivered events
C21_Witness ==
  \E r \in Reqs :
    /\ req[r].pc = "done" /\ ~log[r].thrown /\ ~ServedFromCache(r)
    /\ \E p \in DOMAIN log[r].class : log[r].class[p] \in {"limited", "error"}
    /\ Len(req[r].allStargazers) > 0
    /\ Len(req[r].allStargazers) =
         Len(Gathered(OkAmong(r, log[r].arrived), log[r].delivered))


(***************************************************************************)
(* When the remaining quota is queried                                     *)
(***************************************************************************)
\* a page of the batch that starts after index was classified RateLimited
BatchLimited(r, index) ==
  \E k \in (index + 1)..Min(index + 10, Len(req[r].pagesToFetch)) :
    LET p == req[r].pagesToFetch[k] IN
    p \in DOMAIN log[r].class /\ log[r].class[p] = "limited"

\* C22, as stated: the remaining quota is queried after a batch only if a
\* page fetch of that batch was classified RateLimited; a batch whose pages
\* are all Ok (also Ok with zero events) or failed triggers no quota query
\* and never ends the fetching early.
C22_AsStated ==
  \A r \in Reqs :
    /\ req[r].pc = "rate" => BatchLimited(r, req[r].i)
    /\ \A k \in 1..Len(log[r].quotaSeen) : BatchLimited(r, log[r].quotaSeen[k].index)
    /\ (req[r].pc = "done" /\ ~log[r].thrown /\ log[r].pages # req[r].pagesToFetch) =>
          \E k \in 1..Len(log[r].quotaSeen) : BatchLimited(r, log[r].quotaSeen[k].index)


(***************************************************************************)
(* Batches                                                                 *)
(***************************************************************************)
\* the number of the batch of the k-th page of a plan
BatchOf(k) == (k - 1) \div 10 + 1

\* the pages of a request whose fetch was issued and has not completed
InFlight(r) == SeqToSet(log[r].pages) \ SeqToSet(log[r].arrived)

\* C23: the pages are requested in plan order, batch by batch of 10 (the last
\* batch may be shorter): what has been requested is the plan up to the end
\* of a batch, every page of an earlier batch has completed when a page of
\* a batch is requested, and at most 10 page fetches of a request are in
\* flight.
C23_BatchesInTurn ==
  \A r \in Reqs :
    LET asked   == log[r].pages
        planned == req[r].pagesToFetch
    IN  /\ Len(asked) <= Len(planned)
        /\ asked = SubSeq(planned, 1, Len(asked))
        /\ Len(asked) % 10 = 0 \/ Len(asked) = Len(planned)
        /\ \A j, k \in 1..Len(asked) :
             BatchOf(j) < BatchOf(k) => asked[j] \in SeqToSet(log[r].arrived)
        /\ Cardinality(InFlight(r)) <= 10
        /\ req[r].pending \subseteq InFlight(r)

\* the second batch of an eleven-page plan is in flight
C23_Witness ==
  \E r \in Reqs :
    /\ req[r].pc = "pages"
    /\ Len(req[r].pagesToFetch) = 11
    /\ Len(log[r].pages) = 11
    /\ InFlight(r) = {11}
    /\ Len(log[r].arrived) = 10


(***************************************************************************)
(* A request served from the store                                         *)
(***************************************************************************)
\* what a request served from the store has done: no page fetch, no quota
\* query, and the series of exactly the events it found
HitIsQuiet(r) ==
  /\ log[r].pages = <<>> /\ log[r].arrived = <<>>
  /\ log[r].quota = 0 /\ log[r].quotaSeen = <<>>
  /\ req[r].pc = "done"
  /\ req[r].allStargazers = log[r].lookup.data
  /\ req[r].response =
       [status |-> 200,
        body   |-> BuildSeries(zone, req[r].createdAt, req[r].today, req[r].totalStars,
                               log[r].lookup.data)]

\* the step in which a request finds its events in the store leaves the store as it is
HitKeepsStore ==
  \A r \in Reqs :
    (req[r].pc = "repo" /\ log'[r].lookup.found /\ log'[r].lookup.age < CACHE_TTL) =>
      starCache' = starCache

\* C24: on a cache hit the request issues no page fetch and no quota query,
\* does not write the cache and builds its series from exactly the cached
\* events; pages are fetched only on a miss.
C24_HitFetchesNothing ==
  /\ [](\A r \in Reqs : ServedFromCache(r) => HitIsQuiet(r))
  /\ [](\A r \in Reqs : (log[r].pages # <<>> \/ log[r].quota > 0) => ~ServedFromCache(r))
  /\ [][HitKeepsStore]_vars

\* a request was served an entry stored some time before, and the entry
\* still bears the time at which it was stored
C24_Witness ==
  \E r \in Reqs :
    /\ ServedFromCache(r) /\ log[r].lookup.age > 0
    /\ req[r].pc = "done" /\ req[r].response.status = 200
    /\ Len(req[r].allStargazers) > 0
    /\ starCache[req[r].key].timestamp < now


(***************************************************************************)
(* Events delivered more than once                                         *)
(***************************************************************************)
\* the distinct events of the list that are dated on the given day
EventsOn(allStargazers, date) ==
  {sg \in SeqToSet(allStargazers) :
     "starred_at" \in DOMAIN sg /\ ISODate(sg.starred_at) = date}

\* C25, as stated: the events are merged as a set before bucketing: an event
\* (same timestamp and actor) that was delivered more than once adds 1, not
\* more, to the dailyCount of its day and to observedTotal.
C25_AsStated ==
  series.done =>
    /\ \A k \in 1..Len(series.body.dailyHistory) :
         series.body.dailyHistory[k].daily
           <= Cardinality(EventsOn(series.allStargazers, series.body.dailyHistory[k].date))
    /\ series.body.observed
         <= Cardinality({sg \in SeqToSet(series.allStargazers) : "starred_at" \in DOMAIN sg})


(***************************************************************************)
(* What the completeness correction leaves alone                           *)
(***************************************************************************)
\* C26: the completeness correction changes only cumulativeCount: every
\* entry of dailyHistory has the date and the dailyCount it had before, so
\* the sum of dailyCount still equals observedTotal after it.
C26_OnlyCumulativeScaled ==
  series.done =>
    /\ Len(series.dailyHistory) = Len(series.unscaled)
    /\ \A k \in 1..Len(series.unscaled) :
         /\ DOMAIN series.dailyHistory[k] = DOMAIN series.unscaled[k]
         /\ series.dailyHistory[k].date = series.unscaled[k].date
         /\ series.dailyHistory[k].daily = series.unscaled[k].daily
    /\ SumDaily(series.dailyHistory) = series.observed

\* a correction that changed a cumulative count of a day with events
C26_Witness ==
  /\ series.done
  /\ 0 < series.observed /\ series.observed < series.totalStars
  /\ \E k \in 1..Len(series.unscaled) :
       /\ series.unscaled[k].daily > 0
       /\ series.dailyHistory[k].cumulative > series.unscaled[k].cumulative


(***************************************************************************)
(* The hourly series                                                       *)
(***************************************************************************)
\* the hourly series has one entry per hour of the seven days up to today,
\* each an hour after the one before, with 0 for the hours without events
HourlyDense(allStargazers, today, hourlyActivity) ==
  /\ Len(hourlyActivity) = 7 * 24 + 1
  /\ hourlyActivity[1].hour = HourKey(today) - 7 * 24
  /\ hourlyActivity[Len(hourlyActivity)].hour = HourKey(today)
  /\ \A k \in 1..(Len(hourlyActivity) - 1) :
       hourlyActivity[k + 1].hour = hourlyActivity[k].hour + 1
  /\ \A k \in 1..Len(hourlyActivity) :
       (\A j \in 1..Len(allStargazers) :
          "starred_at" \in DOMAIN allStargazers[j] =>
            HourKey(allStargazers[j].starred_at) # hourlyActivity[k].hour)
         => hourlyActivity[k].stars = 0

\* C27, as stated: hourlyActivity has exactly one entry per hour from today
\* - 7 days to today inclusive (7 * 24 + 1 entries), the hours increase by
\* exactly one hour from entry to entry, and the count is 0 for every hour
\* without events.
C27_AsStated ==
  series.done => HourlyDense(series.allStargazers, series.today, series.body.hourlyActivity)


(***************************************************************************)
(* Every event in one bucket                                               *)
(***************************************************************************)
\* the sum of the counts of the entries lo..hi, taken by halves
RECURSIVE SumHourly(_, _, _)
SumHourly(hourlyActivity, lo, hi) ==
  IF lo > hi THEN 0
  ELSE IF lo = hi THEN hourlyActivity[lo].stars
  ELSE LET mid   == (lo + hi) \div 2
           first == SumHourly(hourlyActivity, lo, mid)
       IN  IF first < 0 THEN 0 ELSE first + SumHourly(hourlyActivity, mid + 1, hi)

\* the number of events of the list dated from createdAt to the day of today
EventsDated(allStargazers, createdAt, today) ==
  Cardinality({j \in 1..Len(allStargazers) :
                 /\ "starred_at" \in DOMAIN allStargazers[j]
                 /\ createdAt <= ISODate(allStargazers[j].starred_at)
                 /\ ISODate(allStargazers[j].starred_at) <= ISODate(today)})

\* the number of events of the list in the seven days up to today
EventsOfWeek(allStargazers, today) ==
  Cardinality({j \in 1..Len(allStargazers) :
                 /\ "starred_at" \in DOMAIN allStargazers[j]
                 /\ today - 7 * TicksPerDay <= allStargazers[j].starred_at
                 /\ allStargazers[j].starred_at <= today})

\* C28, as stated: every event is counted in exactly one daily bucket and,
\* if its timestamp lies within the seven days up to today, in exactly one
\* hourly bucket: the sum of dailyCount equals the number of events dated
\* between createdAt and today, and the sum of the hourly counts equals the
\* number of events with a timestamp in [today - 7 days, today].
C28_AsStated ==
  series.done =>
    /\ SumDaily(series.body.dailyHistory)
         = EventsDated(series.allStargazers, series.createdAt, series.today)
    /\ SumHourly(series.body.hourlyActivity, 1, Len(series.body.hourlyActivity))
         = EventsOfWeek(series.allStargazers, series.today)


(***************************************************************************)
(* The peak day                                                            *)
(***************************************************************************)
\* C29: peakDay is the entry of dailyHistory with the maximum dailyCount,
\* the earliest one when several days share the maximum; when every day has
\* zero events it is the createdAt day with count 0.
C29_PeakIsEarliestMaximum ==
  series.done =>
    LET dailyHistory == series.dailyHistory
        peakDay      == series.trends.peakDay
    IN  IF \A k \in 1..Len(dailyHistory) : dailyHistory[k].daily = 0
          THEN peakDay = [date |-> series.createdAt, stars |-> 0]
          ELSE \E k \in 1..Len(dailyHistory) :
                 /\ peakDay = [date |-> dailyHistory[k].date, stars |-> dailyHistory[k].daily]
                 /\ \A j \in 1..Len(dailyHistory) : dailyHistory[j].daily <= peakDay.stars
                 /\ \A j \in 1..(k - 1) : dailyHistory[j].daily < peakDay.stars

\* two days share the maximum and the peak is the earlier one
C29_Witness ==
  /\ series.done
  /\ series.trends.peakDay.stars > 0
  /\ \E j, k \in 1..Len(series.dailyHistory) :
       /\ j < k
       /\ series.dailyHistory[j].daily = series.trends.peakDay.stars
       /\ series.dailyHistory[k].daily = series.trends.peakDay.stars
       /\ series.dailyHistory[j].date = series.trends.peakDay.date


(***************************************************************************)
(* No page is requested twice                                              *)
(***************************************************************************)
\* how many times page p was requested
TimesAsked(r, p) == Cardinality({j \in 1..Len(log[r].pages) : log[r].pages[j] = p})

\* C30: within one request each planned page is requested at most once: a
\* page that came back rate limited or failed is never requested again, also
\* when the quota query reports 10 or more remaining requests and the next
\* batch is fetched.
C30_NoRetry ==
  \A r \in Reqs :
    /\ \A k \in 1..Len(req[r].pagesToFetch) : TimesAsked(r, req[r].pagesToFetch[k]) <= 1
    /\ \A p \in DOMAIN log[r].class :
         log[r].class[p] \in {"limited", "error"} => TimesAsked(r, p) = 1
    /\ \A j, k \in 1..Len(log[r].arrived) : j # k => log[r].arrived[j] # log[r].arrived[k]

\* a page of the first batch was rate limited or failed, the quota query
\* reported 10 remaining requests and the second batch was fetched
C30_Witness ==
  \E r \in Reqs :
    /\ req[r].pc = "done" /\ ~log[r].thrown
    /\ Len(log[r].quotaSeen) >= 1
    /\ "remaining" \in DOMAIN log[r].quotaSeen[1].rate
    /\ log[r].quotaSeen[1].rate.remaining >= 10
    /\ log[r].quotaSeen[1].index = 0
    /\ \E p \in DOMAIN log[r].class : log[r].class[p] \in {"limited", "error"}
    /\ Len(log[r].pages) = 11


(***************************************************************************)
(* A fresh entry is served to every request                                *)
(***************************************************************************)
\* request r has looked the store up after request o had returned
LookedUpAfter(r, o) ==
  /\ log[r].repoStatus = 200
  /\ log[o].finished > 0
  /\ log[r].finished = 0 \/ log[o].finished < log[r].finished

C31_WitnessStopped ==
  /\ Len(req[1].pagesToFetch) = 11 /\ Len(log[1].pages) = 10
  /\ Len(log[1].quotaSeen) = 1 /\ LimitedAndLow(1, log[1].quotaSeen[1])
  /\ req[2].fetchFull /\ req[2].pc = "done" /\ ServedFromCache(2)
  /\ log[2].pages = <<>>
  /\ Len(req[2].allStargazers) = 9


(***************************************************************************)
(* When the store is written                                               *)
(***************************************************************************)
\* the step in which a request returns with no event accumulated leaves the
\* store as it is
ZeroFetchKeepsStore ==
  \A r \in Reqs :
    (req[r].pc # "done" /\ req'[r].pc = "done" /\ Len(req'[r].allStargazers) = 0) =>
      starCache' = starCache

\* a step that changes the store is the return of a request that has fetched
\* at least one event, and it sets the entry of its key alone
StoreOnlyWithEvents ==
  starCache' # starCache =>
    \E r \in Reqs :
      /\ req[r].pc \in {"repo", "pages", "rate"} /\ req'[r].pc = "done"
      /\ log'[r].pages # <<>>
      /\ Len(req'[r].allStargazers) > 0
      /\ DOMAIN starCache' = DOMAIN starCache \cup {req[r].key}
      /\ starCache'[req[r].key] = [timestamp |-> now, data |-> req'[r].allStargazers]
      /\ \A k \in DOMAIN starCache \ {req[r].key} : starCache'[k] = starCache[k]

\* C32: the cache is written only when the fetch accumulated at least one
\* event: a miss whose fetch accumulates no event (empty plan, pages all
\* empty, rate limited or failed) stores nothing and leaves the whole cache,
\* a stale entry for its key included, unchanged.
C32_StoredOnlyWithEvents ==
  /\ [](\A k \in DOMAIN starCache : Len(starCache[k].data) > 0)
  /\ [][ZeroFetchKeepsStore /\ StoreOnlyWithEvents]_vars

\* a request found a stale entry, fetched a page that gave no event and
\* returned; the stale entry is still in the store
C32_Witness ==
  \E r \in Reqs :
    /\ log[r].lookup.found /\ log[r].lookup.age >= CACHE_TTL
    /\ req[r].pc = "done" /\ req[r].response.status = 200
    /\ log[r].pages = <<1>> /\ log[r].arrived = <<1>>
    /\ Len(req[r].allStargazers) = 0
    /\ req[r].key \in DOMAIN starCache
    /\ starCache[req[r].key].data = log[r].lookup.data
    /\ now - starCache[req[r].key].timestamp = log[r].lookup.age


(***************************************************************************)
(* The error outcome and the store                                         *)
(***************************************************************************)
\* request r has returned the error outcome
ErrorOutcome(q) == q.pc = "done" /\ DOMAIN q.response = {"status", "error"}

\* a step of a request changes the store only if the request returns a
\* result in it
OnlyResultsStore ==
  \A r \in Reqs :
    (req'[r] # req[r] /\ ~(req'[r].pc = "done" /\ req'[r].response.status = 200)) =>
      starCache' = starCache

\* the step in which a request returns the error outcome leaves the store as it is
ErrorKeepsStore ==
  \A r \in Reqs :
    (~ErrorOutcome(req[r]) /\ ErrorOutcome(req'[r])) => starCache' = starCache

\* C33: a request that ends with the error outcome never changes the cache:
\* none of its steps writes the store, so the content after the request is
\* the content before it apart from the writes of other requests.
C33_ErrorLeavesStore ==
  /\ [][OnlyResultsStore /\ ErrorKeepsStore]_vars
  /\ [](\A r \in Reqs :
          (ErrorOutcome(req[r]) /\ req[r].key \in DOMAIN starCache) =>
             starCache[req[r].key].data # req[r].allStargazers
               \/ \E o \in Reqs \ {r} : FinishedFetchOf(o, req[r].key, starCache[req[r].key].data))

\* a request had gathered the events of its first batch when a later
\* upstream call failed: it returned an error and the store has no entry
C33_Witness ==
  \E r \in Reqs :
    /\ ErrorOutcome(req[r]) /\ log[r].thrown
    /\ req[r].response.status = 500
    /\ Len(req[r].allStargazers) >= 9
    /\ starCache = EmptyMap


(***************************************************************************)
(* The summary fetch comes first                                           *)
(***************************************************************************)
\* the store holds a fresh entry for the key of request r
FreshEntryFor(r) ==
  req[r].key \in DOMAIN starCache /\ now - starCache[req[r].key].timestamp < CACHE_TTL

\* C34: every request issues exactly one summary fetch, before it looks the
\* cache up and before any page fetch; so a request whose summary fetch
\* fails returns the error outcome, also when the store holds a fresh entry
\* for its key.
C34_SummaryFirst ==
  \A r \in Reqs :
    /\ log[r].repo = (IF req[r].pc = "idle" THEN 0 ELSE 1)
    /\ (log[r].lookup.found \/ log[r].pages # <<>> \/ log[r].quota > 0) =>
          log[r].repoStatus = 200
    /\ req[r].pc = "repo" =>
          log[r].repoStatus = 0 /\ ~log[r].lookup.found /\ log[r].pages = <<>>
    /\ SummaryFailed(r) =>
          /\ ErrorOutcome(req[r])
          /\ ~log[r].lookup.found
          /\ req[r].allStargazers = <<>>

\* the summary fetch of a request failed while the store held a fresh entry
\* for its key: the request returned the error
C34_Witness ==
  \E r \in Reqs :
    /\ SummaryFailed(r) /\ ErrorOutcome(req[r])
    /\ FreshEntryFor(r)
    /\ req[r].response.status = 500


(***************************************************************************)
(* Termination                                                             *)
(***************************************************************************)
\* the batches request r has issued
BatchesIssued(r) == (Len(log[r].pages) + 9) \div 10

\* C35: provided every upstream call of a request eventually returns, the
\* request eventually completes: it issues at most ceil(planned_pages / 10)
\* batches, never requests a batch again, and reaches its result or its
\* error outcome after the last batch or the early stop.
C35_RequestCompletes ==
  /\ [](/\ BatchesIssued(1) <= (Len(req[1].pagesToFetch) + 9) \div 10
        /\ \A j, k \in 1..Len(log[1].pages) :
             j # k => log[1].pages[j] # log[1].pages[k])
  /\ (req[1].pc # "idle") ~>
       (/\ req[1].pc = "done"
        /\ req[1].response.status \in {200, 403, 500}
        /\ \/ log[1].thrown \/ SummaryFailed(1)
           \/ log[1].pages = req[1].pagesToFetch
           \/ \E k \in 1..Len(log[1].quotaSeen) : StoppedEarly(1, log[1].quotaSeen[k]))

\* the request went through both batches of an eleven-page plan, asked for
\* the quota after the first and returned its result
C35_Witness ==
  /\ req[1].pc = "done" /\ req[1].response.status = 200
  /\ Len(req[1].pagesToFetch) = 11 /\ BatchesIssued(1) = 2
  /\ log[1].quota >= 1

\* the request stopped after the first batch and returned its result
C35_WitnessStopped ==
  /\ req[1].pc = "done" /\ req[1].response.status = 200
  /\ Len(req[1].pagesToFetch) = 11 /\ BatchesIssued(1) = 1
  /\ StoppedEarly(1, log[1].quotaSeen[1])

====
